---------------------------- MODULE Spec2Model ----------------------------
(***************************************************************************)
(* A model of europa1400-networkfix: the target-module record, the         *)
(* call-origin classifier, the hook lifecycle and the replacement          *)
(* functions (hooks.c), the pattern scanner and the resolver               *)
(* (pattern_matcher.c), the log (logging.c) and the DLL entry point with   *)
(* its initialization thread (main.c).                                     *)
(*                                                                         *)
(* The specifications share the variables:                                 *)
(*   SpecIO      one thread calling hook_recv / hook_send, with the        *)
(*               outcomes of the original functions chosen by the          *)
(*               environment at every attempt;                             *)
(*   SpecRange   the initialization thread running init_hooks step by      *)
(*               step while is_caller_from_server is queried;              *)
(*   SpecLife    init_hooks and cleanup_hooks in any order, with the       *)
(*               hooking library and the host's calls;                     *)
(*   SpecPattern find_pattern_in_memory applied to bounded inputs;         *)
(*   SpecResolve find_srv_gameStreamReader_by_pattern on module images;    *)
(*   SpecHooks   hook_GetTickCount and hook_srv_gameStreamReader;          *)
(*   SpecConc    the lifecycle with a second thread in the replacement     *)
(*               functions;                                                *)
(*   SpecLog     init_logging and two threads calling logf;                *)
(*   SpecMain    DllMain's attach and detach with InitThread (main.c).     *)
(*                                                                         *)
(* In every specification but SpecLog the diagnostics sink (logf,          *)
(* log_winsock_error, log_socket_buffer_info) is a black box that writes a *)
(* file: it reads and writes none of the state modelled there, the         *)
(* thread's last-error value included.                                     *)
(***************************************************************************)
EXTENDS Integers, Sequences, FiniteSets, TLC

(***************************************************************************)
(* Bounds of the model.                                                    *)
(***************************************************************************)
\* Addresses are uintptr_t values of AddrBits bits.
AddrBits == 3
\* Largest SizeOfImage the loader reports.
MaxSize == 2
\* Largest len passed to hook_recv / hook_send, besides the example's.
MaxLen == 2
\* The module range published in the initial states of SpecIO.
IOBase == 2
IOSize == 1
\* Calls of an original function are counted up to CallCap.
CallCap == 2
\* The resolver: the largest offset at which the image holds the signature.
MaxRva == 1
\* The references LoadLibrary holds on server.dll at most.
MaxRefs == 2
\* The pattern scanner: bytes of memory at haystack, bytes of pattern.
MaxHay == 4
MaxPat == 2

(***************************************************************************)
(* Program constants.                                                      *)
(***************************************************************************)
SEND_MAX_RETRIES == 1000
SOCKET_ERROR == -1

NO_ERROR == "NO_ERROR"
WSAEWOULDBLOCK == "WSAEWOULDBLOCK"
WSAECONNRESET == "WSAECONNRESET"
WSAECONNABORTED == "WSAECONNABORTED"
WSAENETDOWN == "WSAENETDOWN"
WSAETIMEDOUT == "WSAETIMEDOUT"
WSAEINVAL == "WSAEINVAL"

\* A null pointer: a module handle or base address of 0, a buffer "NULL".
NULL == 0
NullBuf == "NULL"
ValidBuf == "buf"

VARIABLES
    \* the target-module record and the initialization flag (hooks.c 40-44)
    g_HooksInitialized, g_hServerDll, g_ServerBase, g_ServerSize, g_server_rva,
    \* the initialization thread's position in init_hooks, and what the
    \* last call of init_hooks returned
    pcInit, initResult,
    \* the last call of is_caller_from_server made since the module record
    \* was written: its argument and its result
    query,
    \* the thread calling a replacement function: its position, the function,
    \* the caller's return address and the arguments
    pc, fn, caller, sock, buf, len, flags,
    \* hook_send's locals, the value returned, the return statement taken
    total, retry_count, ret, exit,
    \* the thread's last-error value (WSAGetLastError / WSASetLastError)
    lastError,
    \* what the original function saw and did during the call (history)
    origCalls, origArgs, origOut, argsOK, accepted, wbRun, onlyWB, slept, exPos,
    sawOther, sawZero, wbMaxed, resets, setError,
    \* the last operation of the lifecycle (lastOp) when the call began
    entryOp,
    \* the pattern scanner's inputs (the memory at haystack, haystack_size,
    \* needle and mask, both of needle_size bytes) and its result
    haystack, hsize, needle, mask, scanned, found,
    \* find_srv_gameStreamReader_by_pattern: its result, *found_rva, and
    \* what validate_function_prologue answered ("none" when not called)
    matchResult, found_rva, validated,
    \* the hooking library: initialized or not, the hooks created in it and
    \* the hooks enabled; the references LoadLibrary holds on server.dll
    mhInitialized, hooksCreated, hooksEnabled, libRefs,
    \* the current or last call of init_hooks (history): the step that made
    \* it fail, whether every step the environment decides succeeded, the
    \* offset detect_server_version returned (-1 before it returns), whether
    \* MH_EnableHook was executed; and the last operation performed
    failedAt, allOk, rvaFound, enableRun, lastOp,
    \* a call of init_hooks returned FALSE before the current or last call
    \* began (history)
    priorFailed,
    \* the original-function slots (hooks.c 47-53)
    real_recv, real_send, real_GetTickCount, real_srv_gameStreamReader,
    \* the last call of hook_GetTickCount: the value it returned and the
    \* value the original returned to it (-1: no call, original not called)
    tickRet, tickOrig,
    \* the last call of hook_srv_gameStreamReader: its arguments, the value
    \* it returned, how it ended, the calls it made to the original (their
    \* arguments and what the original answered), whether the replacement function itself read or wrote through
    \* ctx; and ctxE, the int at ctx[0xE] of the stream context in memory
    gsrArgs, gsrRet, gsrExit, gsrOrigArgs, ctxTouched, ctxE,
    \* the logging context g_logctx (logging.h 10-16): the flag, the file
    \* handle and the line count; the critical section: the thread that owns
    \* it (0: none) and its recursion count
    critical_section_initialized, log_file, log_line_count, csOwner, csCount,
    \* each thread's position in logf, its local timestamp_len, how its last
    \* call of logf ended; the lines written to the file and the calls of
    \* logf made (history)
    logPc, logTs, logExit, logWritten, logCalls,
    \* main.c: the position of the loader in DllMain
    pcDll

modVars == <<g_HooksInitialized, g_hServerDll, g_ServerBase, g_ServerSize,
             g_server_rva, pcInit, initResult>>
callVars == <<pc, fn, caller, sock, buf, len, flags, total, retry_count, ret,
              exit, lastError>>
histVars == <<origCalls, origArgs, origOut, argsOK, accepted, wbRun, onlyWB,
              slept, exPos, sawOther, sawZero, wbMaxed, resets, setError, entryOp>>
patVars == <<haystack, hsize, needle, mask, scanned, found>>
srvVars == <<matchResult, found_rva, validated>>
lifeVars == <<mhInitialized, hooksCreated, hooksEnabled, libRefs,
              failedAt, allOk, rvaFound, enableRun, lastOp, priorFailed>>
slotVars == <<real_recv, real_send, real_GetTickCount, real_srv_gameStreamReader>>
tickVars == <<tickRet, tickOrig>>
gsrVars == <<gsrArgs, gsrRet, gsrExit, gsrOrigArgs, ctxTouched, ctxE>>
logVars == <<critical_section_initialized, log_file, log_line_count, csOwner, csCount,
             logPc, logTs, logExit, logWritten, logCalls>>
vars == <<modVars, query, callVars, histVars, patVars, srvVars, lifeVars,
          slotVars, tickVars, gsrVars, logVars, pcDll>>

(***************************************************************************)
(* Address arithmetic.                                                     *)
(***************************************************************************)
AddrSpace == 2 ^ AddrBits
Addrs == 0 .. AddrSpace - 1
\* uintptr_t addition wraps.
AddrAdd(a, b) == (a + b) % AddrSpace
\* The last page of the address space is never mapped: a loaded image ends
\* at or below UserTop.
UserTop == AddrSpace - 1

(***************************************************************************)
(* The call-origin classifier.                                             *)
(***************************************************************************)
\* The range test with an upper bound that is closed instead of open.
is_caller_from_server_closed(caller_addr) ==
    IF g_ServerBase = 0
    THEN FALSE
    ELSE /\ caller_addr >= g_ServerBase
         /\ caller_addr <= AddrAdd(g_ServerBase, g_ServerSize)

\* The range test that answers TRUE while the range is unset.
is_caller_from_server_failopen(caller_addr) ==
    IF g_ServerBase = 0
    THEN TRUE
    ELSE /\ caller_addr >= g_ServerBase
         /\ caller_addr < AddrAdd(g_ServerBase, g_ServerSize)

is_caller_from_server(caller_addr) ==
    IF g_ServerBase = 0
    THEN FALSE
    ELSE /\ caller_addr >= g_ServerBase
         /\ caller_addr < AddrAdd(g_ServerBase, g_ServerSize)

\* The classifier with the closed upper bound.
check_server_caller_closed(caller_addr) == is_caller_from_server_closed(caller_addr)

\* CALLER_IP() is the parameter; the socket is only logged.
check_server_caller(caller_addr) == is_caller_from_server(caller_addr)

\* The validation without the test of len.
validate_winsock_params_bufonly(b, n) == ~(b = NullBuf)

\* validate_winsock_params (hooks.c 192); the caller sets WSAEINVAL.
validate_winsock_params(b, n) == ~(b = NullBuf \/ n <= 0)


(***************************************************************************)
(* The original recv and send: what one call can report.  A call fails     *)
(* with SOCKET_ERROR and sets the last-error value, or returns a count of  *)
(* 0 .. n bytes and leaves the last-error value alone.                     *)
(***************************************************************************)
OrigErrors == {WSAEWOULDBLOCK, WSAECONNRESET, WSAECONNABORTED, WSAENETDOWN}
Fail(e) == [r |-> SOCKET_ERROR, e |-> e]
Bytes(k) == [r |-> k, e |-> NO_ERROR]
OrigOutcomes(n) == {Fail(e) : e \in OrigErrors} \cup {Bytes(k) : k \in 0 .. n}
NoOutcome == Bytes(0)
\* The replacement function has not called WSASetLastError.
NotSet == "not set"
\* The last-error value after the original returned `out`.
ErrorAfter(out) == IF out.r = SOCKET_ERROR THEN out.e ELSE lastError

NoArgs == [s |-> 0, b |-> NullBuf, off |-> 0, n |-> 0, f |-> 0]
\* The whole buffer passed again at every attempt.
SendArgs_whole == [s |-> sock, b |-> buf, off |-> 0, n |-> len, f |-> flags]
\* The arguments hook_send passes at each attempt: the unsent suffix.
SendArgs == [s |-> sock, b |-> buf, off |-> total, n |-> len - total, f |-> flags]
\* The arguments a call is forwarded with, unmodified.
ForwardArgs(s, b, n, f) == [s |-> s, b |-> b, off |-> 0, n |-> n, f |-> f]

\* The outcome sequence of the specification's example, for len = 10.
Example == <<Fail(WSAEWOULDBLOCK), Fail(WSAEWOULDBLOCK), Bytes(5),
             Fail(WSAEWOULDBLOCK), Bytes(5)>>
ExampleLen == 5 + 5
ExampleStep(pos, out) ==
    IF pos >= 0 /\ pos < Len(Example) /\ Example[pos + 1] = out
    THEN pos + 1
    ELSE -1

Capped(n) == IF n < CallCap THEN n ELSE CallCap

\* One call of an original function, with `args`, reporting `out`.
RecordCall(args, expected, out) ==
    /\ origCalls' = Capped(origCalls + 1)
    /\ origArgs' = args
    /\ origOut' = out
    /\ argsOK' = (argsOK /\ args = expected)
    /\ accepted' = IF out.r > 0 THEN accepted + out.r ELSE accepted
    /\ wbRun' = IF out = Fail(WSAEWOULDBLOCK) THEN wbRun + 1 ELSE 0
    /\ onlyWB' = (onlyWB /\ out = Fail(WSAEWOULDBLOCK))
    /\ exPos' = ExampleStep(exPos, out)
    /\ sawOther' = (sawOther \/ (out.r = SOCKET_ERROR /\ out.e # WSAEWOULDBLOCK))
    /\ sawZero' = (sawZero \/ out.r = 0)
    /\ wbMaxed' = (wbMaxed \/ (out = Fail(WSAEWOULDBLOCK) /\ wbRun + 1 >= SEND_MAX_RETRIES))
    /\ resets' = (resets \/ (out.r > 0 /\ wbRun > 0))

NoCall == UNCHANGED <<origCalls, origArgs, origOut, argsOK, accepted, wbRun,
                      onlyWB, exPos, sawOther, sawZero, wbMaxed, resets>>

Enter(f0, a, s, b, n, f) ==
    /\ pc = "idle"
    /\ fn' = f0 /\ caller' = a /\ sock' = s /\ buf' = b /\ len' = n /\ flags' = f
    /\ entryOp' = lastOp

(***************************************************************************)
(* hook_recv, one action: the function has no loop.                        *)
(***************************************************************************)
\* The value hook_recv returns to a target-module caller.
RecvResult(out) ==
    IF out.r = SOCKET_ERROR /\ out.e = WSAEWOULDBLOCK THEN 0 ELSE out.r

\* hook_recv without the WSASetLastError(NO_ERROR) of the would-block case.
RecvError_keep(out) == ErrorAfter(out)

\* The last-error value hook_recv leaves to a target-module caller.
RecvError(out) ==
    IF out.r = SOCKET_ERROR /\ out.e = WSAEWOULDBLOCK
    THEN NO_ERROR
    ELSE ErrorAfter(out)

hook_recv(a, s, b, n, f, out) ==
    /\ Enter("recv", a, s, b, n, f)
    /\ pc' = "done"
    /\ UNCHANGED <<total, retry_count, slept>>
    /\ IF ~check_server_caller(a)
       THEN /\ RecordCall(ForwardArgs(s, b, n, f), ForwardArgs(s, b, n, f), out)
            /\ ret' = out.r
            /\ lastError' = ErrorAfter(out)
            /\ setError' = NotSet
            /\ exit' = "passthrough"
       ELSE IF ~validate_winsock_params(b, n)
       THEN /\ NoCall
            /\ lastError' = WSAEINVAL
            /\ setError' = WSAEINVAL
            /\ ret' = SOCKET_ERROR
            /\ exit' = "invalid"
       ELSE /\ RecordCall(ForwardArgs(s, b, n, f), ForwardArgs(s, b, n, f), out)
            /\ ret' = RecvResult(out)
            /\ lastError' = RecvError(out)
            /\ setError' = IF out = Fail(WSAEWOULDBLOCK) THEN NO_ERROR ELSE NotSet
            /\ exit' = IF out = Fail(WSAEWOULDBLOCK) THEN "wouldblock" ELSE "result"

(***************************************************************************)
(* hook_send: the entry (classification, validation, the forwarded call of *)
(* a non-target caller) and one action per iteration of the retry loop.    *)
(***************************************************************************)
\* The loop condition with a ceiling one attempt too low.
LoopAgain_early(t, n, r) == t < n /\ r + 1 < SEND_MAX_RETRIES

\* The loop condition without the retry ceiling.
LoopAgain_noceiling(t, n, r) == t < n

\* The loop condition (hooks.c 494).
LoopAgain(t, n, r) == t < n /\ r < SEND_MAX_RETRIES

\* retry_count without the reset after a successful attempt.
NextRetry_noreset(wouldBlock, r) == IF wouldBlock THEN r + 1 ELSE r

\* retry_count after an attempt (hooks.c 506, 526).
NextRetry(wouldBlock, r) == IF wouldBlock THEN r + 1 ELSE 0

\* The partial count reported after every error, whatever its code.
SendErrorResult_partial(e, t) == IF t > 0 THEN t ELSE SOCKET_ERROR

\* The value returned after an error other than would-block (hooks.c 512-516).
SendErrorResult(e, t) ==
    IF e = WSAECONNRESET \/ e = WSAECONNABORTED
    THEN (IF t > 0 THEN t ELSE SOCKET_ERROR)
    ELSE SOCKET_ERROR

\* A zero-byte result taken for progress.
PeerClosed_never(sent) == FALSE

\* hooks.c 519: the original sent nothing, the peer has closed.
PeerClosed(sent) == sent = 0

\* The running total returned at the ceiling, also when it is 0.
TimeoutResult_total(t) == t

\* The value returned when the retry ceiling is reached (hooks.c 533).
TimeoutResult(t) == IF t > 0 THEN t ELSE SOCKET_ERROR

\* The timeout reported whenever the loop is left.
CeilingReached_always(r) == TRUE

\* The test behind the loop (hooks.c 529).
CeilingReached(r) == r >= SEND_MAX_RETRIES

hook_send(a, s, b, n, f, out) ==
    /\ Enter("send", a, s, b, n, f)
    /\ UNCHANGED slept
    /\ IF ~check_server_caller(a)
       THEN /\ RecordCall(ForwardArgs(s, b, n, f), ForwardArgs(s, b, n, f), out)
            /\ ret' = out.r
            /\ lastError' = ErrorAfter(out)
            /\ setError' = NotSet
            /\ exit' = "passthrough"
            /\ pc' = "done"
            /\ UNCHANGED <<total, retry_count>>
       ELSE IF ~validate_winsock_params(b, n)
       THEN /\ NoCall
            /\ lastError' = WSAEINVAL
            /\ setError' = WSAEINVAL
            /\ ret' = SOCKET_ERROR
            /\ exit' = "invalid"
            /\ pc' = "done"
            /\ UNCHANGED <<total, retry_count>>
       ELSE /\ UNCHANGED <<origCalls, origArgs, origOut, argsOK, accepted, wbRun, onlyWB,
                           sawOther, sawZero, wbMaxed, resets, setError>>
            /\ exPos' = IF n = ExampleLen THEN 0 ELSE -1
            /\ total' = 0
            /\ retry_count' = 0
            /\ pc' = "send_loop"
            /\ UNCHANGED <<ret, exit, lastError>>

\* One iteration of the while loop, and the code after the loop when the
\* loop condition fails afterwards.  retry_count is dead once the function
\* returns and is cleared there; wbRun keeps the length of the last run of
\* would-blocks.
hook_send_loop(out) ==
    /\ pc = "send_loop"
    /\ UNCHANGED <<fn, caller, sock, buf, len, flags, entryOp>>
    /\ RecordCall(SendArgs, [s |-> sock, b |-> buf, off |-> accepted, n |-> len - accepted, f |-> flags], out)
    /\ LET sent == out.r
           wouldBlock == sent = SOCKET_ERROR /\ out.e = WSAEWOULDBLOCK
       IN  IF sent = SOCKET_ERROR /\ ~wouldBlock
           THEN /\ lastError' = out.e
                /\ setError' = out.e
                /\ ret' = SendErrorResult(out.e, total)
                /\ exit' = "error"
                /\ pc' = "done"
                /\ retry_count' = 0
                /\ UNCHANGED <<total, slept>>
           ELSE IF PeerClosed(sent)
           THEN /\ ret' = total
                /\ exit' = "closed"
                /\ pc' = "done"
                /\ retry_count' = 0
                /\ UNCHANGED <<total, slept, lastError, setError>>
           ELSE LET t1 == IF wouldBlock THEN total ELSE total + sent
                    r1 == NextRetry(wouldBlock, retry_count)
                IN  /\ total' = t1
                    /\ retry_count' = IF LoopAgain(t1, len, r1) THEN r1 ELSE 0
                    /\ slept' = (slept \/ wouldBlock)
                    /\ IF LoopAgain(t1, len, r1)
                       THEN /\ pc' = "send_loop"
                            /\ lastError' = ErrorAfter(out)
                            /\ UNCHANGED <<ret, exit, setError>>
                       ELSE IF CeilingReached(r1)
                       THEN /\ lastError' = WSAETIMEDOUT
                            /\ setError' = WSAETIMEDOUT
                            /\ ret' = TimeoutResult(t1)
                            /\ exit' = "timeout"
                            /\ pc' = "done"
                       ELSE /\ lastError' = ErrorAfter(out)
                            /\ UNCHANGED setError
                            /\ ret' = t1
                            /\ exit' = "complete"
                            /\ pc' = "done"

\* The replacement function has returned; the thread may call again.
Return ==
    /\ pc = "done"
    /\ pc' = "idle"
    /\ fn' = "none" /\ caller' = 0 /\ sock' = 0 /\ buf' = NullBuf /\ len' = 0 /\ flags' = 0
    /\ total' = 0 /\ retry_count' = 0 /\ ret' = 0 /\ exit' = "none"
    /\ origCalls' = 0 /\ origArgs' = NoArgs /\ origOut' = NoOutcome /\ argsOK' = TRUE
    /\ accepted' = 0 /\ wbRun' = 0 /\ onlyWB' = TRUE /\ slept' = FALSE /\ exPos' = -1
    /\ sawOther' = FALSE /\ sawZero' = FALSE /\ wbMaxed' = FALSE /\ resets' = FALSE
    /\ setError' = NotSet
    /\ entryOp' = "none"
    /\ UNCHANGED lastError

(***************************************************************************)
(* SpecIO: the inputs of the replacement functions.                        *)
(***************************************************************************)
Sockets == {1}
FlagSet == {1}
Bufs == {NullBuf, ValidBuf}
Lens == (-1 .. MaxLen) \cup {ExampleLen}
\* Return addresses around the published range, and address 0.
IOCallers == {0, IOBase - 1, IOBase, IOBase + IOSize - 1, IOBase + IOSize}

IdleCall ==
    /\ pc = "idle"
    /\ fn = "none" /\ caller = 0 /\ sock = 0 /\ buf = NullBuf /\ len = 0 /\ flags = 0
    /\ total = 0 /\ retry_count = 0 /\ ret = 0 /\ exit = "none"
    /\ origCalls = 0 /\ origArgs = NoArgs /\ origOut = NoOutcome /\ argsOK = TRUE
    /\ accepted = 0 /\ wbRun = 0 /\ onlyWB = TRUE /\ slept = FALSE /\ exPos = -1
    /\ sawOther = FALSE /\ sawZero = FALSE /\ wbMaxed = FALSE /\ resets = FALSE
    /\ setError = NotSet
    /\ entryOp = "none"

NoScan ==
    /\ haystack = <<>> /\ hsize = 0 /\ needle = <<>> /\ mask = <<>>
    /\ scanned = FALSE /\ found = -1

\* The state of the hooking library and of the loader when the DLL is loaded.
NoLife ==
    /\ mhInitialized = FALSE /\ hooksCreated = {} /\ hooksEnabled = {} /\ libRefs = 0
    /\ failedAt = "none" /\ allOk = TRUE /\ rvaFound = -1 /\ enableRun = FALSE
    /\ lastOp = "none"
    /\ priorFailed = FALSE

NoResolve == matchResult = "none" /\ found_rva = 0 /\ validated = "none"

\* A non-null original-function pointer: the trampoline the hooking library
\* stores through ppOriginal when it creates a hook.
Trampoline == 1

\* The original-function slots as the static initializers leave them.
NoSlots ==
    /\ real_recv = NULL /\ real_send = NULL /\ real_GetTickCount = NULL
    /\ real_srv_gameStreamReader = NULL

NoGsr == [ctx |-> NULL, received |-> 0, totalLen |-> 0]

\* A null and an open file handle.
INVALID_HANDLE_VALUE == -1
LogHandle == 1
\* The threads that call logf.
LogThreads == {1, 2}

\* g_logctx = {0} (logging.c 17), no thread in logf; the DLL not loaded.
NoLog ==
    /\ critical_section_initialized = FALSE
    /\ log_file = NULL
    /\ log_line_count = 0
    /\ csOwner = 0 /\ csCount = 0
    /\ logPc = [t \in LogThreads |-> "idle"]
    /\ logTs = [t \in LogThreads |-> 0]
    /\ logExit = [t \in LogThreads |-> "none"]
    /\ logWritten = 0
    /\ logCalls = 0
    /\ pcDll = "unloaded"

\* No call of hook_GetTickCount or hook_srv_gameStreamReader was made.
NoFnCalls ==
    /\ tickRet = -1 /\ tickOrig = -1
    /\ gsrArgs = NoGsr /\ gsrRet = 0 /\ gsrExit = "none" /\ gsrOrigArgs = <<>>
    /\ ctxTouched = FALSE /\ ctxE = 0

NoQuery == [addr |-> 0, res |-> FALSE, made |-> FALSE]

\* The module record is unset, or published by validate_server_module.
InitIO ==
    /\ g_HooksInitialized = FALSE
    /\ g_server_rva = 0
    /\ pcInit = "idle"
    /\ initResult = "none"
    /\ \/ g_hServerDll = NULL /\ g_ServerBase = 0 /\ g_ServerSize = 0
       \/ g_hServerDll = IOBase /\ g_ServerBase = IOBase /\ g_ServerSize = IOSize
    /\ query = NoQuery
    /\ IdleCall
    /\ lastError \in {NO_ERROR, WSAECONNRESET}
    /\ NoScan
    /\ NoResolve
    /\ NoLife
    /\ real_recv = Trampoline /\ real_send = Trampoline
    /\ real_GetTickCount = Trampoline /\ real_srv_gameStreamReader = NULL
    /\ NoFnCalls
    /\ NoLog

NextIO ==
    \/ \E a \in IOCallers, s \in Sockets, b \in Bufs, n \in Lens, f \in FlagSet :
         \E out \in OrigOutcomes(n) :
           /\ hook_recv(a, s, b, n, f, out)
           /\ UNCHANGED <<modVars, query, patVars, srvVars, lifeVars, slotVars, tickVars, gsrVars, logVars, pcDll>>
    \/ \E a \in IOCallers, s \in Sockets, b \in Bufs, n \in Lens, f \in FlagSet :
         \E out \in IF check_server_caller(a) THEN {NoOutcome} ELSE OrigOutcomes(n) :
           /\ hook_send(a, s, b, n, f, out)
           /\ UNCHANGED <<modVars, query, patVars, srvVars, lifeVars, slotVars, tickVars, gsrVars, logVars, pcDll>>
    \/ \E out \in OrigOutcomes(len - total) :
         /\ hook_send_loop(out)
         /\ UNCHANGED <<modVars, query, patVars, srvVars, lifeVars, slotVars, tickVars, gsrVars, logVars, pcDll>>
    \/ /\ Return
       /\ UNCHANGED <<modVars, query, patVars, srvVars, lifeVars, slotVars, tickVars, gsrVars, logVars, pcDll>>

SpecIO == InitIO /\ [][NextIO]_vars


(***************************************************************************)
(* Properties of hook_send and hook_recv, checked under SpecIO.            *)
(***************************************************************************)
\* The caller's return address lies in the published module range.
InTargetRange(a) ==
    /\ g_ServerBase # 0
    /\ g_ServerBase <= a
    /\ a < g_ServerBase + g_ServerSize

ValidArgs == buf # NullBuf /\ len > 0
TargetSendDone == pc = "done" /\ fn = "send" /\ InTargetRange(caller) /\ ValidArgs

\* C1: a hook_send call from a target-module caller with a non-null buffer
\* and len > 0, whose original never reports an error other than would-block,
\* never returns 0 and never reports would-block SEND_MAX_RETRIES times in a
\* row, returns exactly len, every byte accepted by the original, and does
\* not set the timeout error; the outcomes [would-block, would-block, 5 of
\* 10, would-block, 5 of 10] return 10.
C1_SendDeliversAll ==
    /\ (TargetSendDone /\ ~sawOther /\ ~sawZero /\ ~wbMaxed) =>
          /\ ret = len
          /\ accepted = len
          /\ exit = "complete"
          /\ setError # WSAETIMEDOUT
    /\ (pc = "done" /\ fn = "send" /\ exPos = Len(Example)) =>
          /\ ret = ExampleLen
          /\ exit = "complete"
          /\ setError # WSAETIMEDOUT

C1_Witness ==
    /\ TargetSendDone
    /\ exPos = Len(Example)
    /\ ret = ExampleLen
    /\ resets

\* C2: in hook_send retry_count is the number of would-blocks since the last
\* attempt that sent a byte (it is 0 after every such attempt), and the
\* retry-ceiling exit is taken if and only if the last SEND_MAX_RETRIES
\* attempts of the call were all would-block.
C2_OnlyConsecutiveWouldBlocksCount ==
    /\ pc = "send_loop" => retry_count = wbRun
    /\ (pc = "send_loop" /\ origCalls > 0 /\ origOut.r > 0) => retry_count = 0
    /\ TargetSendDone => (exit = "timeout" <=> wbRun >= SEND_MAX_RETRIES)

C2_Witness ==
    /\ TargetSendDone
    /\ exit = "timeout"
    /\ resets
    /\ accepted > 0

\* C3: when SEND_MAX_RETRIES consecutive would-blocks exhaust the ceiling,
\* hook_send sets the last-error value to WSAETIMEDOUT and returns the bytes
\* sent if there are any and SOCKET_ERROR if there are none; with only
\* would-block outcomes the original is attempted exactly SEND_MAX_RETRIES
\* times and the result is SOCKET_ERROR with 0 bytes sent.
C3_CeilingReportsTimeout ==
    /\ (TargetSendDone /\ wbRun >= SEND_MAX_RETRIES) =>
          /\ lastError = WSAETIMEDOUT
          /\ setError = WSAETIMEDOUT
          /\ ret = (IF accepted > 0 THEN accepted ELSE SOCKET_ERROR)
    /\ (TargetSendDone /\ onlyWB) =>
          /\ wbRun = SEND_MAX_RETRIES
          /\ accepted = 0
          /\ ret = SOCKET_ERROR
          /\ lastError = WSAETIMEDOUT

C3_Witness ==
    /\ TargetSendDone
    /\ onlyWB
    /\ wbRun = SEND_MAX_RETRIES
    /\ ret = SOCKET_ERROR
    /\ lastError = WSAETIMEDOUT

\* C4 as claimed: after any error other than would-block hook_send reports
\* the bytes sent so far if there are any, and SOCKET_ERROR only if there
\* are none.
C4_AnyErrorReportsPartial ==
    (TargetSendDone /\ sawOther) =>
        ret = (IF accepted > 0 THEN accepted ELSE SOCKET_ERROR)

\* C4 as amended: after an error other than would-block hook_send stops at
\* once with the last-error value that of the original; it reports the bytes
\* sent so far, if there are any, only for WSAECONNRESET and WSAECONNABORTED,
\* and SOCKET_ERROR for every other error code, whatever was sent, and for
\* every error when nothing was sent.
C4_OnlyResetAndAbortReportPartial ==
    (TargetSendDone /\ sawOther) =>
        /\ exit = "error"
        /\ origOut.r = SOCKET_ERROR
        /\ lastError = origOut.e
        /\ ret = (IF origOut.e \in {WSAECONNRESET, WSAECONNABORTED} /\ accepted > 0
                  THEN accepted
                  ELSE SOCKET_ERROR)

C4_Witness ==
    /\ TargetSendDone
    /\ origOut = Fail(WSAENETDOWN)
    /\ accepted > 0
    /\ ret = SOCKET_ERROR

\* C5: every iteration of hook_send's loop that does not return either
\* accepts at least one more byte, total staying below len, or adds one to
\* retry_count, which stays below SEND_MAX_RETRIES: the call returns after
\* at most len * SEND_MAX_RETRIES attempts, whatever the original reports.
C5_SendTerminates ==
    [][pc = "send_loop" =>
         \/ pc' = "done"
         \/ /\ pc' = "send_loop"
            /\ len' = len
            /\ \/ total' > total /\ total' < len
               \/ /\ total' = total
                  /\ retry_count' = retry_count + 1
                  /\ retry_count' < SEND_MAX_RETRIES]_vars

C5_Witness ==
    /\ pc = "send_loop"
    /\ resets
    /\ total = len - 1
    /\ retry_count = SEND_MAX_RETRIES - 1

C7_OtherCallersPassThrough ==
    [][(pc = "idle" /\ fn' # "none" /\ ~InTargetRange(caller')) =>
         /\ pc' = "done"
         /\ origCalls' = 1
         /\ origArgs' = [s |-> sock', b |-> buf', off |-> 0, n |-> len', f |-> flags']
         /\ ret' = origOut'.r
         /\ ~slept'
         /\ setError' = NotSet
         /\ lastError' = (IF origOut'.r = SOCKET_ERROR THEN origOut'.e ELSE lastError)]_vars

C7_Witness ==
    /\ pc = "done" /\ fn = "send" /\ ~InTargetRange(caller)
    /\ g_ServerBase # 0
    /\ buf = NullBuf /\ len <= 0
    /\ origCalls = 1
    /\ origOut = Fail(WSAEWOULDBLOCK)
    /\ ret = SOCKET_ERROR
    /\ lastError = WSAEWOULDBLOCK


\* C28: in hook_send for a target-module caller, when the original returns
\* 0 the loop stops at once: no attempt follows it, the call returns the
\* bytes sent so far (possibly 0), and hook_send sets no error.
C28_ZeroResultStopsSend ==
    /\ (pc = "send_loop" /\ origCalls > 0) => origOut.r # 0
    /\ (TargetSendDone /\ origCalls > 0 /\ origOut.r = 0) =>
          /\ exit = "closed"
          /\ ret = accepted
          /\ ret = total
          /\ setError = NotSet

C28_Witness ==
    /\ TargetSendDone
    /\ len = 2
    /\ accepted = 1
    /\ origOut = Bytes(0)
    /\ ret = 1
    /\ exit = "closed"

\* C29: for a target-module caller, hook_recv and hook_send called with a
\* null buffer or with len <= 0 return SOCKET_ERROR with the last-error
\* value WSAEINVAL and call the original function not once.
C29_InvalidArgumentsFailFast ==
    (pc = "done" /\ fn \in {"recv", "send"} /\ InTargetRange(caller) /\ ~ValidArgs) =>
        /\ ret = SOCKET_ERROR
        /\ lastError = WSAEINVAL
        /\ setError = WSAEINVAL
        /\ origCalls = 0
        /\ exit = "invalid"

C29_Witness ==
    /\ pc = "done"
    /\ fn = "send"
    /\ InTargetRange(caller)
    /\ buf = ValidBuf
    /\ len = 0
    /\ ret = SOCKET_ERROR
    /\ lastError = WSAEINVAL
    /\ origCalls = 0

\* A hook_send call of a target-module caller with valid arguments, in its
\* retry loop or returned from it.
TargetSend == fn = "send" /\ InTargetRange(caller) /\ ValidArgs /\ pc \in {"send_loop", "done"}

\* C34: every attempt of hook_send passes the original exactly the unsent
\* suffix of the buffer (offset: the bytes accepted so far, length: len
\* minus them); total is the sum of the bytes accepted and stays in
\* 0 .. len; the call returns SOCKET_ERROR or that sum, a count in 0 .. len.
C34_SendPassesUnsentSuffix ==
    /\ TargetSend =>
          /\ argsOK
          /\ total = accepted
          /\ total \in 0 .. len
    /\ (TargetSend /\ origCalls > 0) => origArgs.off + origArgs.n = len
    /\ TargetSendDone =>
          \/ ret = SOCKET_ERROR
          \/ ret \in 0 .. len /\ ret = accepted

C34_Witness ==
    /\ TargetSendDone
    /\ len = ExampleLen
    /\ origArgs = [s |-> sock, b |-> buf, off |-> 5, n |-> 5, f |-> flags]
    /\ origOut = Fail(WSAECONNRESET)
    /\ total = 5
    /\ ret = 5

\* C35: hook_send never reports the retry-ceiling timeout for a buffer that
\* was delivered in full: a call that leaves with retry_count at the
\* ceiling has sent fewer than len bytes, and a call that has sent all len
\* bytes returns len without setting the timeout error.
C35_NoTimeoutForDeliveredBuffer ==
    /\ (TargetSendDone /\ (exit = "timeout" \/ wbRun >= SEND_MAX_RETRIES)) =>
          /\ accepted < len
          /\ ret # len
    /\ (TargetSendDone /\ accepted = len) =>
          /\ exit = "complete"
          /\ ret = len
          /\ setError # WSAETIMEDOUT

C35_Witness ==
    /\ TargetSendDone
    /\ exit = "timeout"
    /\ accepted = len - 1
    /\ ret = len - 1
    /\ setError = WSAETIMEDOUT

(***************************************************************************)
(* The target-module record: init_hooks up to the return of                *)
(* init_server_module, one action per step of the initialization thread.   *)
(* The loader maps the module at a base address h (its handle) with an     *)
(* image of sz bytes, h + sz <= UserTop.                                    *)
(***************************************************************************)
ModuleBases == 1 .. UserTop - 1
ImageSizes(h) == {sz \in 1 .. MaxSize : h + sz <= UserTop}
HookNames == {"srv_gameStreamReader", "recv", "send", "GetTickCount"}

\* reset_server_globals, entered with the handle hDll in g_hServerDll:
\* FreeLibrary of a non-null handle, then all zero.
reset_server_globals(hDll) ==
    /\ libRefs' = IF hDll # NULL THEN libRefs - 1 ELSE libRefs
    /\ g_hServerDll' = NULL
    /\ g_ServerBase' = 0
    /\ g_ServerSize' = 0
    /\ g_server_rva' = 0

\* "return FALSE" of init_hooks, the failure having shown at step.
ReturnFailure(step, envOk) ==
    /\ pcInit' = "idle"
    /\ initResult' = "FALSE"
    /\ failedAt' = step
    /\ allOk' = (allOk /\ envOk)

\* init_hooks, lines 675-683 and init_server_module, line 290.
init_hooks ==
    /\ pcInit = "idle"
    /\ lastOp' = "init_hooks"
    /\ priorFailed' = (priorFailed \/ initResult = "FALSE")
    /\ UNCHANGED slotVars
    /\ UNCHANGED <<g_HooksInitialized, g_hServerDll, g_ServerBase, g_ServerSize,
                   g_server_rva, query, mhInitialized, hooksCreated, hooksEnabled,
                   libRefs>>
    /\ IF g_HooksInitialized
       THEN /\ pcInit' = "idle"
            /\ initResult' = "TRUE"
            /\ UNCHANGED <<failedAt, allOk, rvaFound, enableRun>>
       ELSE /\ pcInit' = IF g_hServerDll # NULL /\ g_ServerBase # 0 /\ g_server_rva # 0
                         THEN "minhook"
                         ELSE "load"
            /\ initResult' = "none"
            /\ failedAt' = "none"
            /\ allOk' = TRUE
            /\ rvaFound' = -1
            /\ enableRun' = FALSE

\* load_server_dll: LoadLibraryA returns NULL or the module's handle h, and
\* the result overwrites g_hServerDll.
load_server_dll(h) ==
    /\ pcInit = "load"
    /\ UNCHANGED <<g_HooksInitialized, mhInitialized, hooksCreated, hooksEnabled,
                   rvaFound, enableRun, priorFailed>>
    /\ lastOp' = "init_hooks"
    /\ UNCHANGED slotVars
    /\ IF h = NULL
       THEN /\ reset_server_globals(NULL)
            /\ query' = NoQuery
            /\ ReturnFailure("load_server_dll", FALSE)
       ELSE /\ g_hServerDll' = h
            /\ libRefs' = libRefs + 1
            /\ UNCHANGED <<g_ServerBase, g_ServerSize, g_server_rva, query>>
            /\ pcInit' = "validate"
            /\ UNCHANGED <<initResult, failedAt, allOk>>

\* validate_server_module: GetModuleInformation fails, or reports the base
\* (the handle) and the size of the image.
validate_server_module(ok, sz) ==
    /\ pcInit = "validate"
    /\ UNCHANGED <<g_HooksInitialized, mhInitialized, hooksCreated, hooksEnabled,
                   rvaFound, enableRun, priorFailed>>
    /\ lastOp' = "init_hooks"
    /\ UNCHANGED slotVars
    /\ query' = NoQuery
    /\ IF ~ok
       THEN /\ reset_server_globals(g_hServerDll)
            /\ ReturnFailure("validate_server_module", FALSE)
       ELSE /\ g_ServerBase' = g_hServerDll
            /\ g_ServerSize' = sz
            /\ UNCHANGED <<g_hServerDll, g_server_rva, libRefs>>
            /\ pcInit' = "detect"
            /\ UNCHANGED <<initResult, failedAt, allOk>>

\* The test of detect_server_version's result without the failure branch.
ResolutionFailed_never(result) == FALSE

\* init_server_module, line 304: !detect_server_version().
ResolutionFailed(result) == result = 0

\* detect_server_version: 0 when the file name or the digest cannot be had,
\* else the offset the pattern matcher reports (0 when it reports none).
\* The result is tested by init_server_module and stored nowhere.
detect_server_version(nameOk, hashOk, pattern_rva) ==
    /\ pcInit = "detect"
    /\ UNCHANGED <<g_HooksInitialized, mhInitialized, hooksCreated, hooksEnabled,
                   enableRun, priorFailed>>
    /\ lastOp' = "init_hooks"
    /\ UNCHANGED slotVars
    /\ LET result == IF nameOk /\ hashOk THEN pattern_rva ELSE 0
       IN  /\ rvaFound' = result
           /\ IF ResolutionFailed(result)
              THEN /\ reset_server_globals(g_hServerDll)
                   /\ query' = NoQuery
                   /\ ReturnFailure("detect_server_version", FALSE)
              ELSE /\ UNCHANGED <<g_hServerDll, g_ServerBase, g_ServerSize,
                                  g_server_rva, libRefs, query>>
                   /\ pcInit' = "minhook"
                   /\ UNCHANGED <<initResult, failedAt, allOk>>

\* init_hooks, lines 689-695: MH_Initialize fails when the library is
\* initialized already, and may fail (ok = FALSE) when it is not.
MH_Initialize(ok) ==
    /\ pcInit = "minhook"
    /\ UNCHANGED <<g_HooksInitialized, g_hServerDll, g_ServerBase, g_ServerSize,
                   g_server_rva, query, hooksCreated, hooksEnabled, libRefs,
                   rvaFound, enableRun, priorFailed>>
    /\ lastOp' = "init_hooks"
    /\ UNCHANGED slotVars
    /\ IF mhInitialized \/ ~ok
       THEN /\ ReturnFailure("MH_Initialize", ok)
            /\ UNCHANGED mhInitialized
       ELSE /\ mhInitialized' = TRUE
            /\ pcInit' = "create"
            /\ UNCHANGED <<initResult, failedAt, allOk>>

\* MH_CreateHook and MH_CreateHookApi store the trampoline through
\* ppOriginal when they create the hook, and leave the slot alone when not.
SlotAfterCreate(slot, created) == IF created THEN Trampoline ELSE slot

\* create_hooks' result taken from the last creation only.
CreateResult_last(srv, rcv, snd, tick) == tick

\* create_hooks: success starts TRUE, is cleared when the server hook is
\* not created, and is and-ed with each API hook's creation.
CreateResult(srv, rcv, snd, tick) == srv /\ rcv /\ snd /\ tick

\* init_hooks, lines 697-724: create_hooks, then MH_EnableHook(MH_ALL_HOOKS)
\* when create_hooks returned TRUE.  The library creates the hooks it
\* reports created; a failing MH_EnableHook may have enabled part of them.
create_hooks(srvOk, recvOk, sendOk, tickOk, enableOk, part) ==
    /\ pcInit = "create"
    /\ UNCHANGED <<g_hServerDll, g_ServerBase, g_ServerSize, g_server_rva, query,
                   mhInitialized, libRefs, rvaFound, priorFailed>>
    /\ lastOp' = "init_hooks"
    /\ LET srv == IF g_hServerDll = NULL \/ g_server_rva = 0 THEN FALSE ELSE srvOk
           created == hooksCreated
                      \cup (IF srv THEN {"srv_gameStreamReader"} ELSE {})
                      \cup (IF recvOk THEN {"recv"} ELSE {})
                      \cup (IF sendOk THEN {"send"} ELSE {})
                      \cup (IF tickOk THEN {"GetTickCount"} ELSE {})
           envOk == srvOk /\ recvOk /\ sendOk /\ tickOk
       IN  /\ hooksCreated' = created
           /\ real_srv_gameStreamReader' = SlotAfterCreate(real_srv_gameStreamReader, srv)
           /\ real_recv' = SlotAfterCreate(real_recv, recvOk)
           /\ real_send' = SlotAfterCreate(real_send, sendOk)
           /\ real_GetTickCount' = SlotAfterCreate(real_GetTickCount, tickOk)
           /\ IF ~CreateResult(srv, recvOk, sendOk, tickOk)
              THEN /\ ReturnFailure("create_hooks", envOk)
                   /\ UNCHANGED <<g_HooksInitialized, hooksEnabled, enableRun>>
              ELSE /\ enableRun' = TRUE
                   /\ IF enableOk
                      THEN /\ hooksEnabled' = created
                           /\ g_HooksInitialized' = TRUE
                           /\ pcInit' = "idle"
                           /\ initResult' = "TRUE"
                           /\ UNCHANGED <<failedAt, allOk>>
                      ELSE /\ hooksEnabled' = hooksEnabled \cup (part \cap created)
                           /\ ReturnFailure("MH_EnableHook", envOk)
                           /\ UNCHANGED g_HooksInitialized

\* The guard of cleanup_hooks left out.
CleanupNeeded_always(initialized) == TRUE

\* cleanup_hooks, lines 733-736: nothing to do unless initialized.
CleanupNeeded(initialized) == initialized

\* cleanup_hooks: MH_DisableHook(MH_ALL_HOOKS), MH_Uninitialize, FreeLibrary
\* of a non-null handle, and the flag cleared.
cleanup_hooks ==
    /\ UNCHANGED slotVars
    /\ UNCHANGED <<g_ServerBase, g_ServerSize, g_server_rva, pcInit, initResult,
                   query, failedAt, allOk, rvaFound, enableRun, priorFailed>>
    /\ IF ~CleanupNeeded(g_HooksInitialized)
       THEN /\ lastOp' = "cleanup_hooks: nothing done"
            /\ UNCHANGED <<g_HooksInitialized, g_hServerDll, mhInitialized,
                           hooksCreated, hooksEnabled, libRefs>>
       ELSE /\ lastOp' = "cleanup_hooks: torn down"
            /\ hooksEnabled' = {}
            /\ mhInitialized' = FALSE
            /\ hooksCreated' = {}
            /\ libRefs' = IF g_hServerDll # NULL THEN libRefs - 1 ELSE libRefs
            /\ g_hServerDll' = NULL
            /\ g_HooksInitialized' = FALSE

\* The host calls recv, send or GetTickCount: the call enters the
\* replacement function when the hook is enabled and the original when not.
host_call(api) ==
    /\ lastOp' = IF api \in hooksEnabled THEN "host call: hook" ELSE "host call: original"
    /\ UNCHANGED <<modVars, query, mhInitialized, hooksCreated, hooksEnabled, libRefs,
                   failedAt, allOk, rvaFound, enableRun, priorFailed, slotVars>>

\* Any thread calls is_caller_from_server(a).
call_is_caller_from_server(a) ==
    /\ query' = [addr |-> a, res |-> is_caller_from_server(a), made |-> TRUE]
    /\ UNCHANGED <<modVars, lifeVars, slotVars>>

InitRange ==
    /\ g_HooksInitialized = FALSE
    /\ g_hServerDll = NULL
    /\ g_ServerBase = 0
    /\ g_ServerSize = 0
    /\ g_server_rva = 0
    /\ pcInit = "idle"
    /\ initResult = "none"
    /\ query = NoQuery
    /\ IdleCall
    /\ lastError = NO_ERROR
    /\ NoScan
    /\ NoResolve
    /\ NoLife
    /\ NoSlots
    /\ NoFnCalls
    /\ NoLog

\* What LoadLibraryA can answer: NULL, or a handle while the reference
\* count stays within the model's bound.
Loadable(bases) == IF libRefs < MaxRefs THEN {NULL} \cup bases ELSE {NULL}

OtherVars == <<callVars, histVars, patVars, srvVars, tickVars, gsrVars, logVars, pcDll>>

NextRange ==
    \/ /\ init_hooks
       /\ UNCHANGED OtherVars
    \/ \E h \in Loadable(ModuleBases) :
         /\ load_server_dll(h)
         /\ UNCHANGED OtherVars
    \/ \E ok \in BOOLEAN, sz \in ImageSizes(g_hServerDll) :
         /\ validate_server_module(ok, sz)
         /\ UNCHANGED OtherVars
    \/ \E nameOk \in BOOLEAN, hashOk \in BOOLEAN, rva \in 0 .. g_ServerSize - 1 :
         /\ detect_server_version(nameOk, hashOk, rva)
         /\ UNCHANGED OtherVars
    \/ \E ok \in BOOLEAN :
         /\ MH_Initialize(ok)
         /\ UNCHANGED OtherVars
    \/ \E srvOk \in BOOLEAN, recvOk \in BOOLEAN, sendOk \in BOOLEAN, tickOk \in BOOLEAN :
         \E enableOk \in BOOLEAN, part \in {{}, HookNames} :
           /\ create_hooks(srvOk, recvOk, sendOk, tickOk, enableOk, part)
           /\ UNCHANGED OtherVars
    \/ \E a \in Addrs :
         /\ call_is_caller_from_server(a)
         /\ UNCHANGED OtherVars

SpecRange == InitRange /\ [][NextRange]_vars

(***************************************************************************)
(* SpecLife: init_hooks and cleanup_hooks called in any order, with every  *)
(* outcome of the loader, the resolver and the hooking library, while the  *)
(* host calls the hooked functions.  The module is mapped at IOBase.       *)
(***************************************************************************)
InitLife == InitRange

NextLife ==
    \/ /\ init_hooks
       /\ UNCHANGED OtherVars
    \/ \E h \in Loadable({IOBase}) :
         /\ load_server_dll(h)
         /\ UNCHANGED OtherVars
    \/ \E ok \in BOOLEAN, sz \in ImageSizes(g_hServerDll) :
         /\ validate_server_module(ok, sz)
         /\ UNCHANGED OtherVars
    \/ \E nameOk \in BOOLEAN, hashOk \in BOOLEAN, rva \in 0 .. g_ServerSize - 1 :
         /\ detect_server_version(nameOk, hashOk, rva)
         /\ UNCHANGED OtherVars
    \/ \E ok \in BOOLEAN :
         /\ MH_Initialize(ok)
         /\ UNCHANGED OtherVars
    \/ \E srvOk \in BOOLEAN, recvOk \in BOOLEAN, sendOk \in BOOLEAN, tickOk \in BOOLEAN :
         \E enableOk \in BOOLEAN, part \in SUBSET HookNames :
           /\ create_hooks(srvOk, recvOk, sendOk, tickOk, enableOk, part)
           /\ UNCHANGED OtherVars
    \/ /\ cleanup_hooks
       /\ UNCHANGED OtherVars
    \/ \E api \in HookNames \ {"srv_gameStreamReader"} :
         /\ host_call(api)
         /\ UNCHANGED OtherVars

SpecLife == InitLife /\ [][NextLife]_vars

(***************************************************************************)
(* Properties of the call-origin classifier, checked under SpecRange.      *)
(***************************************************************************)
\* C8: while the module range is unset (g_ServerBase = 0: before the module
\* is resolved, or after a failed resolution reset the globals),
\* is_caller_from_server is FALSE for every address, address 0 included, so
\* check_server_caller sends every intercepted call the passthrough way.
C8_UnsetRangeMatchesNothing ==
    g_ServerBase = 0 =>
        /\ \A a \in Addrs : ~is_caller_from_server(a) /\ ~check_server_caller(a)
        /\ query.made => ~query.res

C8_Witness ==
    /\ g_ServerBase = 0
    /\ initResult = "FALSE"
    /\ query.made
    /\ query.addr = 0
    /\ ~query.res

\* C9: once the module range is (base, size) with base # 0,
\* is_caller_from_server(addr) is TRUE if and only if
\* base <= addr < base + size: TRUE at base and at base + size - 1, FALSE
\* at base - 1 and at base + size.
C9_RangeIsClosedOpen ==
    g_ServerBase # 0 =>
        /\ \A a \in Addrs :
             is_caller_from_server(a) <=>
                 (g_ServerBase <= a /\ a < g_ServerBase + g_ServerSize)
        /\ g_ServerSize > 0 =>
             /\ is_caller_from_server(g_ServerBase)
             /\ is_caller_from_server(g_ServerBase + g_ServerSize - 1)
        /\ ~is_caller_from_server(g_ServerBase - 1)
        /\ ~is_caller_from_server(g_ServerBase + g_ServerSize)
        /\ query.made =>
             (query.res <=> (g_ServerBase <= query.addr
                             /\ query.addr < g_ServerBase + g_ServerSize))

C9_Witness ==
    /\ g_ServerBase # 0
    /\ g_ServerSize > 1
    /\ is_caller_from_server(g_ServerBase)
    /\ is_caller_from_server(g_ServerBase + g_ServerSize - 1)
    /\ ~is_caller_from_server(g_ServerBase - 1)
    /\ query.made
    /\ query.addr = g_ServerBase + g_ServerSize
    /\ ~query.res

(***************************************************************************)
(* The pattern scanner of pattern_matcher.c.  Memory is a sequence of      *)
(* bytes starting at the haystack pointer; haystack_size says how many of  *)
(* them the caller declares searchable.  C indices start at 0, sequence    *)
(* indices at 1.  The pointers are not NULL.                               *)
(***************************************************************************)
RECURSIVE MatchAt_nomask(_, _, _, _, _, _)
\* The inner loop comparing every byte, the mask ignored.
MatchAt_nomask(h, i, n, m, needle_size, j) ==
    IF j >= needle_size THEN TRUE
    ELSE IF h[i + j + 1] # n[j + 1] THEN FALSE
    ELSE MatchAt_nomask(h, i, n, m, needle_size, j + 1)

RECURSIVE MatchAt(_, _, _, _, _, _)
\* The inner loop (lines 72-80) from position j on: does the pattern match
\* at offset i?
MatchAt(h, i, n, m, needle_size, j) ==
    IF j >= needle_size THEN TRUE
    ELSE IF m[j + 1] = 255 /\ h[i + j + 1] # n[j + 1] THEN FALSE
    ELSE MatchAt(h, i, n, m, needle_size, j + 1)

RECURSIVE ScanFrom_wholememory(_, _, _, _, _, _)
\* The outer loop bounded by the memory that is there, not by haystack_size.
ScanFrom_wholememory(h, haystack_size, n, m, needle_size, i) ==
    IF i > Len(h) - needle_size THEN -1
    ELSE IF MatchAt(h, i, n, m, needle_size, 0) THEN i
    ELSE ScanFrom_wholememory(h, haystack_size, n, m, needle_size, i + 1)

RECURSIVE ScanFrom_last(_, _, _, _, _, _)
\* The outer loop going on after a match: the last match is returned.
ScanFrom_last(h, haystack_size, n, m, needle_size, i) ==
    IF i > haystack_size - needle_size THEN -1
    ELSE LET later == ScanFrom_last(h, haystack_size, n, m, needle_size, i + 1)
         IN  IF later # -1 THEN later
             ELSE IF MatchAt(h, i, n, m, needle_size, 0) THEN i
             ELSE -1

RECURSIVE ScanFrom(_, _, _, _, _, _)
\* The outer loop (lines 70-88) from offset i on.
ScanFrom(h, haystack_size, n, m, needle_size, i) ==
    IF i > haystack_size - needle_size THEN -1
    ELSE IF MatchAt(h, i, n, m, needle_size, 0) THEN i
    ELSE ScanFrom(h, haystack_size, n, m, needle_size, i + 1)

find_pattern_in_memory(h, haystack_size, n, m, needle_size) ==
    IF needle_size = 0 \/ haystack_size < needle_size
    THEN -1
    ELSE ScanFrom(h, haystack_size, n, m, needle_size, 0)

\* A caller runs the scanner on the inputs of this behaviour.
scan ==
    /\ ~scanned
    /\ scanned' = TRUE
    /\ found' = find_pattern_in_memory(haystack, hsize, needle, mask, Len(needle))
    /\ UNCHANGED <<haystack, hsize, needle, mask>>

\* The caller drops the result.
forget ==
    /\ scanned
    /\ scanned' = FALSE
    /\ found' = -1
    /\ UNCHANGED <<haystack, hsize, needle, mask>>

ByteVals == {0, 1}
MaskVals == {0, 255}
SeqsUpTo(S, k) == UNION {[1 .. l -> S] : l \in 0 .. k}

InitPattern ==
    /\ g_HooksInitialized = FALSE
    /\ g_hServerDll = NULL
    /\ g_ServerBase = 0
    /\ g_ServerSize = 0
    /\ g_server_rva = 0
    /\ pcInit = "idle"
    /\ initResult = "none"
    /\ query = NoQuery
    /\ IdleCall
    /\ lastError = NO_ERROR
    /\ haystack \in SeqsUpTo(ByteVals, MaxHay)
    /\ hsize \in 0 .. Len(haystack)
    /\ needle \in SeqsUpTo(ByteVals, MaxPat)
    /\ mask \in [1 .. Len(needle) -> MaskVals]
    /\ scanned = FALSE
    /\ found = -1
    /\ NoResolve
    /\ NoLife
    /\ NoSlots
    /\ NoFnCalls
    /\ NoLog

NextPattern ==
    \/ /\ scan
       /\ UNCHANGED <<modVars, query, callVars, histVars, srvVars, lifeVars, slotVars, tickVars, gsrVars, logVars, pcDll>>
    \/ /\ forget
       /\ UNCHANGED <<modVars, query, callVars, histVars, srvVars, lifeVars, slotVars, tickVars, gsrVars, logVars, pcDll>>

SpecPattern == InitPattern /\ [][NextPattern]_vars

(***************************************************************************)
(* Properties of the pattern scanner, checked under SpecPattern.           *)
(***************************************************************************)
\* The pattern (needle, mask) occurs in the searchable bytes at offset i:
\* it fits, and every byte whose mask byte is 0xFF agrees.
Occurs(i) ==
    /\ i + Len(needle) <= hsize
    /\ \A j \in 0 .. Len(needle) - 1 :
         mask[j + 1] = 255 => haystack[i + j + 1] = needle[j + 1]

FirstOccurrence(i) == Occurs(i) /\ \A k \in 0 .. i - 1 : ~Occurs(k)

\* C10 as stated: for every haystack and every pattern (bytes, mask) of
\* equal length, if the first offset at which the pattern matches is i,
\* find_pattern_in_memory returns i.  A byte at a wildcard position is not
\* read by Occurs, so it has no influence on the result.
C10_FirstMatchReturned ==
    scanned => \A i \in 0 .. hsize : FirstOccurrence(i) => found = i

\* C10, amended: the same for every pattern of at least one byte; the
\* pattern of no bytes is reported as not found (-1).
C10_FirstMatchOfNonEmptyPatternReturned ==
    scanned =>
        /\ Len(needle) > 0 =>
             \A i \in 0 .. hsize : FirstOccurrence(i) => found = i
        /\ Len(needle) = 0 => found = -1

C10_Witness ==
    /\ scanned
    /\ found > 0
    /\ FirstOccurrence(found)
    /\ \E j \in 0 .. Len(needle) - 1 :
         /\ mask[j + 1] = 0
         /\ haystack[found + j + 1] # needle[j + 1]

\* The bytes in memory at offset i agree with the pattern, whether or not
\* they all lie inside the searchable part.
AgreesInMemory(i) ==
    /\ i + Len(needle) <= Len(haystack)
    /\ \A j \in 0 .. Len(needle) - 1 :
         mask[j + 1] = 255 => haystack[i + j + 1] = needle[j + 1]

\* C11: when the pattern occurs at no offset of the haystack, also when
\* the haystack is shorter than the pattern and when the bytes agree from
\* an offset inside the haystack on but run past its end,
\* find_pattern_in_memory returns -1 and never an offset.
C11_NoOccurrenceNotFound ==
    (scanned /\ \A i \in 0 .. hsize : ~Occurs(i)) => found = -1

C11_Witness ==
    /\ scanned
    /\ found = -1
    /\ Len(needle) > 1
    /\ hsize >= Len(needle)
    /\ \A i \in 0 .. hsize : ~Occurs(i)
    /\ \E i \in 0 .. hsize - 1 : AgreesInMemory(i) /\ i + Len(needle) > hsize

(***************************************************************************)
(* The resolver of pattern_matcher.c: the compiled-in signature, the       *)
(* prologue validator and find_srv_gameStreamReader_by_pattern.  A DWORD   *)
(* is kept as its residue in -2^31 .. 2^31 - 1; the sums below stay        *)
(* inside that range for the images of this model.                         *)
(***************************************************************************)
SRV_GAMESTREAMREADER_PATTERN ==
    <<81,
      139, 76, 36, 12,
      83,
      85,
      139, 108, 36, 16,
      86,
      87,
      133, 237,
      139, 241,
      15, 132, 0, 0, 0, 0,
      128, 125, 92, 114,
      15, 133, 0, 0, 0, 0,
      139, 69, 56>>

SRV_GAMESTREAMREADER_MASK ==
    <<255,
      255, 255, 255, 255,
      255,
      255,
      255, 255, 255, 255,
      255,
      255,
      255, 255,
      255, 255,
      255, 255, 0, 0, 255, 0,
      255, 255, 255, 255,
      255, 255, 0, 0, 0, 0,
      255, 255, 255>>

SRV_GAMESTREAMREADER_PATTERN_SIZE == Len(SRV_GAMESTREAMREADER_PATTERN)

\* *(DWORD *)(p): four bytes, little endian, as a residue.
DwordAt(mem, off) ==
    mem[off + 1] + 256 * mem[off + 2] + 65536 * mem[off + 3]
        + 16777216 * (IF mem[off + 4] >= 128 THEN mem[off + 4] - 256 ELSE mem[off + 4])

\* d >= module_size for the DWORD whose residue is d: a negative residue is
\* a DWORD of 2^31 or more, above the size of any image.
DwordAtLeast(d, module_size) == d < 0 \/ d >= module_size

\* The validator reads the opcodes at offsets 18, 19 and 28, 29 and the
\* double words at 20 and 30.
validate_function_prologue(base_addr, rva_offset, module_size) ==
    IF rva_offset + 50 >= module_size THEN FALSE
    ELSE IF base_addr[rva_offset + 1] # 81 THEN FALSE
    ELSE IF /\ base_addr[rva_offset + 18 + 1] = 15
            /\ base_addr[rva_offset + 19 + 1] = 132
            /\ DwordAtLeast(rva_offset + 24 + DwordAt(base_addr, rva_offset + 20), module_size)
         THEN FALSE
    ELSE IF /\ base_addr[rva_offset + 28 + 1] = 15
            /\ base_addr[rva_offset + 29 + 1] = 133
            /\ DwordAtLeast(rva_offset + 34 + DwordAt(base_addr, rva_offset + 30), module_size)
         THEN FALSE
    ELSE TRUE

\* find_srv_gameStreamReader_by_pattern(module_handle, &found_rva): the
\* module image is in haystack, hsize its SizeOfImage.
find_srv_gameStreamReader_by_pattern(handleOk, infoOk) ==
    /\ matchResult = "none"
    /\ UNCHANGED patVars
    /\ IF ~handleOk
       THEN /\ matchResult' = "PATTERN_MATCH_INVALID_PARAMS"
            /\ UNCHANGED <<found_rva, validated>>
       ELSE IF ~infoOk
       THEN /\ matchResult' = "PATTERN_MATCH_MODULE_ERROR"
            /\ found_rva' = 0
            /\ UNCHANGED validated
       ELSE LET pattern_offset ==
                    find_pattern_in_memory(haystack, hsize, SRV_GAMESTREAMREADER_PATTERN,
                                           SRV_GAMESTREAMREADER_MASK,
                                           SRV_GAMESTREAMREADER_PATTERN_SIZE)
            IN  IF pattern_offset = -1
                THEN /\ matchResult' = "PATTERN_MATCH_NOT_FOUND"
                     /\ found_rva' = 0
                     /\ UNCHANGED validated
                ELSE IF ~validate_function_prologue(haystack, pattern_offset, hsize)
                THEN /\ matchResult' = "PATTERN_MATCH_VALIDATION_FAILED"
                     /\ found_rva' = 0
                     /\ validated' = "FALSE"
                ELSE /\ matchResult' = "PATTERN_MATCH_SUCCESS"
                     /\ found_rva' = pattern_offset
                     /\ validated' = "TRUE"

\* The caller: detect_server_version returns pattern_rva, the value left in
\* *found_rva (hooks.c 101-132), and init_server_module tests it (304).
resolve_done ==
    /\ matchResult # "none"
    /\ rvaFound' = found_rva
    /\ failedAt' = IF ResolutionFailed(found_rva) THEN "detect_server_version" ELSE "none"
    /\ matchResult' = "none"
    /\ found_rva' = 0
    /\ validated' = "none"
    /\ UNCHANGED patVars
    /\ UNCHANGED <<mhInitialized, hooksCreated, hooksEnabled, libRefs, allOk, enableRun, priorFailed,
                   lastOp>>

(***************************************************************************)
(* SpecResolve: module images that hold the signature once, at offset rva, *)
(* with every choice of the eight displacement bytes, and tail bytes       *)
(* behind it (14: the image ends 50 bytes after rva; 15: one byte more);   *)
(* and images that hold it twice.                                          *)
(***************************************************************************)
DispVals == {0, 255}
TailLens == {14, 15}
Pad(n) == [i \in 1 .. n |-> 0]
Location(jz, jnz) ==
    [i \in 1 .. SRV_GAMESTREAMREADER_PATTERN_SIZE |->
        IF i \in 20 .. 23 THEN jz[i - 19]
        ELSE IF i \in 30 .. 33 THEN jnz[i - 29]
        ELSE SRV_GAMESTREAMREADER_PATTERN[i]]
Image(rva, jz, jnz, tail) == Pad(rva) \o Location(jz, jnz) \o Pad(tail)
\* An image that holds the signature twice, gap bytes apart.
Image2(rva, gap, tail) ==
    Pad(rva) \o Location(Pad(4), Pad(4)) \o Pad(gap) \o Location(Pad(4), Pad(4)) \o Pad(tail)

InitResolve ==
    /\ g_HooksInitialized = FALSE
    /\ g_hServerDll = NULL
    /\ g_ServerBase = 0
    /\ g_ServerSize = 0
    /\ g_server_rva = 0
    /\ pcInit = "idle"
    /\ initResult = "none"
    /\ query = NoQuery
    /\ IdleCall
    /\ lastError = NO_ERROR
    /\ \E rva \in 0 .. MaxRva, tail \in TailLens :
         \/ \E jz \in [1 .. 4 -> DispVals], jnz \in [1 .. 4 -> DispVals] :
              haystack = Image(rva, jz, jnz, tail)
         \/ \E gap \in 0 .. 1 :
              haystack = Image2(rva, gap, tail)
    /\ hsize = Len(haystack)
    /\ needle = <<>>
    /\ mask = <<>>
    /\ scanned = FALSE
    /\ found = -1
    /\ NoResolve
    /\ NoLife
    /\ NoSlots
    /\ NoFnCalls
    /\ NoLog

NextResolve ==
    \/ \E handleOk \in BOOLEAN, infoOk \in BOOLEAN :
         /\ find_srv_gameStreamReader_by_pattern(handleOk, infoOk)
         /\ UNCHANGED <<modVars, query, callVars, histVars, lifeVars, slotVars, tickVars, gsrVars, logVars, pcDll>>
    \/ /\ resolve_done
       /\ UNCHANGED <<modVars, query, callVars, histVars, slotVars, tickVars, gsrVars, logVars, pcDll>>

SpecResolve == InitResolve /\ [][NextResolve]_vars

(***************************************************************************)
(* Properties of the resolver, checked under SpecResolve.                  *)
(***************************************************************************)
\* The image agrees with the signature at offset r on every exact byte.
MatchesSignature(r) ==
    /\ r + SRV_GAMESTREAMREADER_PATTERN_SIZE <= hsize
    /\ \A j \in 1 .. SRV_GAMESTREAMREADER_PATTERN_SIZE :
         SRV_GAMESTREAMREADER_MASK[j] = 255 =>
             haystack[r + j] = SRV_GAMESTREAMREADER_PATTERN[j]

FirstSignature(r) == MatchesSignature(r) /\ \A k \in 0 .. r - 1 : ~MatchesSignature(k)

\* The branch targets of the function at r: the end of the instruction
\* (JZ at 17 .. 22, JNZ at 27 .. 32) plus its displacement.
JzTarget(r) == r + 23 + DwordAt(haystack, r + 19)
JnzTarget(r) == r + 33 + DwordAt(haystack, r + 29)
BadTarget(r) ==
    \/ JzTarget(r) < 0 \/ JzTarget(r) >= hsize
    \/ JnzTarget(r) < 0 \/ JnzTarget(r) >= hsize

\* C12: a location that agrees with the signature on every exact byte but
\* whose JZ or JNZ target is negative or at or beyond the module size is
\* rejected by validate_function_prologue, and
\* find_srv_gameStreamReader_by_pattern does not return
\* PATTERN_MATCH_SUCCESS for it.
C12_BadBranchTargetRejected ==
    validated # "none" =>
        \A r \in 0 .. hsize :
            (FirstSignature(r) /\ BadTarget(r)) =>
                /\ validated = "FALSE"
                /\ matchResult # "PATTERN_MATCH_SUCCESS"

\* The call got as far as the scan.
Scanned ==
    matchResult \in {"PATTERN_MATCH_NOT_FOUND", "PATTERN_MATCH_VALIDATION_FAILED",
                     "PATTERN_MATCH_SUCCESS"}

\* C32: resolution considers the first (lowest) match only: when the first
\* match fails the prologue validation the result is
\* PATTERN_MATCH_VALIDATION_FAILED with *found_rva = 0, whatever lies
\* behind it, and a success reports the first match.
C32_OnlyFirstMatchConsidered ==
    /\ matchResult = "PATTERN_MATCH_VALIDATION_FAILED" => found_rva = 0
    /\ Scanned =>
         \A r \in 0 .. hsize :
            FirstSignature(r) =>
               /\ matchResult # "PATTERN_MATCH_NOT_FOUND"
               /\ r + 50 >= hsize =>
                     /\ matchResult = "PATTERN_MATCH_VALIDATION_FAILED"
                     /\ validated = "FALSE"
               /\ matchResult = "PATTERN_MATCH_SUCCESS" => found_rva = r

C32_Witness ==
    /\ matchResult = "PATTERN_MATCH_VALIDATION_FAILED"
    /\ found_rva = 0
    /\ validated = "FALSE"
    /\ FirstSignature(1)
    /\ hsize = 1 + SRV_GAMESTREAMREADER_PATTERN_SIZE + 14

\* The bytes at r are the signature's instruction bytes: every byte of the
\* pattern but the four displacement bytes of the JZ (19 .. 22) and the
\* four of the JNZ (29 .. 32).
InstructionBytesAt(r) ==
    /\ r + SRV_GAMESTREAMREADER_PATTERN_SIZE <= hsize
    /\ \A j \in (1 .. SRV_GAMESTREAMREADER_PATTERN_SIZE) \ ((20 .. 23) \cup (30 .. 33)) :
         haystack[r + j] = SRV_GAMESTREAMREADER_PATTERN[j]

\* C33: the eight displacement bytes are wildcards: an image that holds the
\* signature's instruction bytes is matched by the scan, whatever the
\* displacement bytes are.
C33_DisplacementBytesAreWildcards ==
    Scanned =>
        ((\E r \in 0 .. hsize : InstructionBytesAt(r)) => matchResult # "PATTERN_MATCH_NOT_FOUND")

Returned(r) == pcInit = "idle" /\ initResult = r

ModuleCleared ==
    /\ g_hServerDll = NULL
    /\ g_ServerBase = 0
    /\ g_ServerSize = 0
    /\ g_server_rva = 0

ApiHooks == {"recv", "send", "GetTickCount"}
ResolutionSteps == {"load_server_dll", "validate_server_module", "detect_server_version"}
CleanupOps == {"cleanup_hooks: nothing done", "cleanup_hooks: torn down"}
HostCalls == {"host call: hook", "host call: original"}
HookState == <<g_HooksInitialized, g_hServerDll, g_ServerBase, g_ServerSize,
               g_server_rva, mhInitialized, hooksCreated, hooksEnabled, libRefs>>

\* C13: when version resolution yields offset 0, init_hooks goes on to no
\* step of the hooking library, returns failure with the module globals
\* cleared and g_HooksInitialized false, MH_EnableHook is not executed, no
\* hook is enabled, and no server-function hook exists while the offset is 0.
C13_ZeroOffsetAbortsInit ==
    /\ pcInit \in {"minhook", "create"} => rvaFound # 0
    /\ (Returned("FALSE") /\ rvaFound = 0) =>
          /\ failedAt = "detect_server_version"
          /\ ModuleCleared
          /\ ~g_HooksInitialized
          /\ ~enableRun
          /\ hooksEnabled = {}
    /\ g_server_rva = 0 => "srv_gameStreamReader" \notin hooksCreated

C13_Witness ==
    /\ Returned("FALSE")
    /\ rvaFound = 0
    /\ failedAt = "detect_server_version"
    /\ ModuleCleared
    /\ libRefs = 0

\* C14: when the creation of one of the four hooks fails init_hooks returns
\* failure without executing MH_EnableHook: the enable step is executed, and
\* hooks are enabled, only with all four hooks created.
C14_AnyCreationFailureFailsInit ==
    /\ (pcInit = "idle" /\ failedAt = "create_hooks") =>
          /\ initResult = "FALSE"
          /\ ~enableRun
          /\ hooksEnabled = {}
    /\ enableRun => hooksCreated = HookNames
    /\ Returned("TRUE") => hooksCreated = HookNames
    /\ hooksEnabled # {} => hooksCreated = HookNames

C14_Witness ==
    /\ Returned("FALSE")
    /\ failedAt = "create_hooks"
    /\ hooksCreated = {"send", "GetTickCount"}
    /\ ~enableRun
    /\ hooksEnabled = {}

\* C15: after init_hooks has failed at a resolution step (the module cannot
\* be loaded, its information or digest cannot be had, the pattern is not
\* found or not validated) nothing is left: the module is released and its
\* handle NULL, base, size and offset are 0, the hooking library is not
\* initialized, no hook is created or enabled, g_HooksInitialized is false.
C15_ResolutionFailureLeavesNothing ==
    (Returned("FALSE") /\ failedAt \in ResolutionSteps) =>
        /\ ModuleCleared
        /\ libRefs = 0
        /\ ~mhInitialized
        /\ hooksCreated = {}
        /\ hooksEnabled = {}
        /\ ~g_HooksInitialized

\* C16: whenever init_hooks has returned failure, at whatever step, the
\* module has been released and g_hServerDll, g_ServerBase, g_ServerSize
\* and g_server_rva are zero.
C16_AnyFailureResetsModuleRecord ==
    Returned("FALSE") => (ModuleCleared /\ libRefs = 0)

\* C17: after init_hooks has returned failure, at whatever step, no hook is
\* enabled, and a call of recv, send or GetTickCount by the host reaches
\* the original function.
C17_FailedInitEnablesNothing ==
    /\ Returned("FALSE") => hooksEnabled = {}
    /\ (initResult = "FALSE" /\ lastOp \in HostCalls) => lastOp = "host call: original"

C17_Witness ==
    /\ Returned("FALSE")
    /\ failedAt = "create_hooks"
    /\ hooksCreated = ApiHooks
    /\ mhInitialized
    /\ lastOp = "host call: original"

C19_CleanupWhenNotInitializedIsNoOp ==
    [][/\ (lastOp' \in CleanupOps /\ ~g_HooksInitialized) =>
            /\ lastOp' = "cleanup_hooks: nothing done"
            /\ UNCHANGED HookState
       /\ (lastOp' \in CleanupOps /\ lastOp \in CleanupOps) =>
            UNCHANGED HookState]_vars

C19_Witness ==
    /\ lastOp = "cleanup_hooks: nothing done"
    /\ Returned("FALSE")
    /\ failedAt = "MH_Initialize"
    /\ g_hServerDll # NULL
    /\ libRefs = 1

\* C20: after cleanup_hooks has returned, in whatever state it was called
\* between two calls of init_hooks, no hook is created or enabled, the
\* hooking library is uninitialized and the module has been released.
C20_TeardownReleasesEverything ==
    (lastOp \in CleanupOps /\ pcInit = "idle") =>
        /\ hooksCreated = {}
        /\ hooksEnabled = {}
        /\ ~mhInitialized
        /\ g_hServerDll = NULL
        /\ libRefs = 0

\* The module range is published: base and size are those of the module
\* that g_hServerDll names.
RangePublished ==
    /\ g_ServerBase # 0
    /\ g_ServerBase = g_hServerDll
    /\ g_ServerSize \in ImageSizes(g_ServerBase)

\* C21: in every state in which a hook is enabled the module range is
\* published, and the range is written before the enable-all step: it is
\* published in every state in which init_hooks stands behind
\* init_server_module, at MH_Initialize or at create_hooks / MH_EnableHook.
C21_RangePublishedBeforeEnable ==
    (hooksEnabled # {} \/ enableRun \/ pcInit \in {"minhook", "create"}) => RangePublished

C21_Witness ==
    /\ pcInit = "create"
    /\ mhInitialized
    /\ RangePublished
    /\ g_ServerSize = MaxSize
    /\ hooksEnabled = {}

\* The state of the hook lifecycle, read from the hooking library.
Lifecycle ==
    IF hooksEnabled # {} THEN "Enabled"
    ELSE IF mhInitialized THEN "Installed"
    ELSE "Uninitialized"

\* The moves of the lifecycle; cleanup_hooks goes from Enabled through
\* Disabled (hooks disabled, library still initialized) to Uninitialized
\* within one call.
LifecycleMoves ==
    {<<"Uninitialized", "Installed">>, <<"Installed", "Enabled">>,
     <<"Enabled", "Uninitialized">>}

\* C23: under any sequence of init_hooks and cleanup_hooks calls the
\* lifecycle changes only along Uninitialized -> Installed -> Enabled ->
\* (Disabled ->) Uninitialized, never from Enabled back to Installed;
\* g_HooksInitialized is true only in Enabled, and a host call enters a
\* replacement function only in Enabled.
C23_LifecycleFollowsStateMachine ==
    [][/\ Lifecycle' # Lifecycle => <<Lifecycle, Lifecycle'>> \in LifecycleMoves
       /\ g_HooksInitialized' => Lifecycle' = "Enabled"
       /\ lastOp' = "host call: hook" => Lifecycle' = "Enabled"]_vars

C23_Witness ==
    /\ Lifecycle = "Installed"
    /\ hooksCreated = ApiHooks
    /\ Returned("FALSE")
    /\ lastOp = "cleanup_hooks: nothing done"

\* C24: once cleanup_hooks has run after a call of init_hooks in which
\* every step succeeded, g_ServerBase, g_ServerSize and g_server_rva are 0
\* and is_caller_from_server answers FALSE for every address.
C24_TeardownResetsModuleRecord ==
    (pcInit = "idle" /\ initResult # "none" /\ allOk /\ lastOp \in CleanupOps) =>
        /\ g_ServerBase = 0
        /\ g_ServerSize = 0
        /\ g_server_rva = 0
        /\ \A a \in Addrs : ~is_caller_from_server(a)

\* The original-function slot of a hook.
Slot(h) ==
    CASE h = "recv" -> real_recv
      [] h = "send" -> real_send
      [] h = "GetTickCount" -> real_GetTickCount
      [] h = "srv_gameStreamReader" -> real_srv_gameStreamReader

C38_RetryAfterFailureSucceeds ==
    (pcInit = "idle" /\ initResult # "none" /\ priorFailed /\ allOk) =>
        /\ initResult = "TRUE"
        /\ g_HooksInitialized
        /\ hooksEnabled = HookNames

(***************************************************************************)
(* hook_GetTickCount and hook_srv_gameStreamReader.  The stream context is *)
(* one object in memory, at address CtxPtr; ctxE is its int at index 0xE.  *)
(* The original srv_gameStreamReader may write that int and returns any    *)
(* value.  A call through a NULL function pointer faults: page 0 is not    *)
(* mapped in a Windows process.                                            *)
(***************************************************************************)
MaxTick == 2
TickVals == 0 .. MaxTick
CtxPtr == 1
GsrVals == {-1, 0, 1}

\* The test of the slot inverted.
TickResult_inverted(slot, orig) == IF slot = NULL THEN orig ELSE 0

\* hook_GetTickCount: the original's value when real_GetTickCount is set,
\* else 0 (hooks.c 343-351).
TickResult(slot, orig) == IF slot # NULL THEN orig ELSE 0

\* hook_GetTickCount; orig is what the original answers when it is called.
hook_GetTickCount(orig) ==
    /\ tickOrig' = IF real_GetTickCount # NULL THEN orig ELSE -1
    /\ tickRet' = TickResult(real_GetTickCount, orig)

\* The context test left out.
NullContext_never(ctx) == FALSE

\* hooks.c 369: !ctx.
NullContext(ctx) == ctx = NULL

\* A value kept also when it is negative.
FixNegative_keep(v) == v

\* hooks.c 380-392: a negative value becomes 0.
FixNegative(v) == IF v < 0 THEN 0 ELSE v

\* One call of the original srv_gameStreamReader: the arguments it was
\* given, the value it returned and the int it left in ctx[0xE].
OrigCall(ctx, received, totalLen, oret, oE) ==
    [args |-> [ctx |-> ctx, received |-> received, totalLen |-> totalLen],
     ret |-> oret, e |-> oE]

\* hook_srv_gameStreamReader; the original, when it is called, leaves oE in
\* ctx[0xE] and returns oret.
hook_srv_gameStreamReader(ctx, received, totalLen, oret, oE) ==
    /\ gsrArgs' = [ctx |-> ctx, received |-> received, totalLen |-> totalLen]
    /\ IF NullContext(ctx)
       THEN /\ gsrRet' = -1
            /\ gsrExit' = "null context"
            /\ gsrOrigArgs' = <<>>
            /\ ctxTouched' = FALSE
            /\ UNCHANGED ctxE
       ELSE IF real_srv_gameStreamReader = NULL
       THEN /\ gsrRet' = 0
            /\ gsrExit' = "fault"
            /\ gsrOrigArgs' = <<>>
            /\ ctxTouched' = FALSE
            /\ UNCHANGED ctxE
       ELSE IF ctx = NULL
       THEN \* the original has been handed NULL; ctx[0xE] is read through it
            /\ gsrRet' = 0
            /\ gsrExit' = "fault"
            /\ gsrOrigArgs' = <<OrigCall(ctx, received, totalLen, oret, oE)>>
            /\ ctxTouched' = TRUE
            /\ UNCHANGED ctxE
       ELSE /\ gsrOrigArgs' = <<OrigCall(ctx, received, totalLen, oret, oE)>>
            /\ ctxTouched' = TRUE
            /\ ctxE' = FixNegative(oE)
            /\ gsrRet' = FixNegative(oret)
            /\ gsrExit' = "returned"

(***************************************************************************)
(* SpecHooks: the two functions called with every state of their slots.    *)
(***************************************************************************)
InitHooks ==
    /\ g_HooksInitialized = FALSE
    /\ g_hServerDll = NULL
    /\ g_ServerBase = 0
    /\ g_ServerSize = 0
    /\ g_server_rva = 0
    /\ pcInit = "idle"
    /\ initResult = "none"
    /\ query = NoQuery
    /\ IdleCall
    /\ lastError \in {NO_ERROR, WSAECONNRESET}
    /\ NoScan
    /\ NoResolve
    /\ NoLife
    /\ real_recv = NULL /\ real_send = NULL
    /\ real_GetTickCount \in {NULL, Trampoline}
    /\ real_srv_gameStreamReader \in {NULL, Trampoline}
    /\ tickRet = -1 /\ tickOrig = -1
    /\ gsrArgs = NoGsr /\ gsrRet = 0 /\ gsrExit = "none" /\ gsrOrigArgs = <<>>
    /\ ctxTouched = FALSE
    /\ ctxE \in GsrVals
    /\ NoLog

NextHooks ==
    \/ \E orig \in TickVals :
         /\ hook_GetTickCount(orig)
         /\ UNCHANGED <<modVars, query, callVars, histVars, patVars, srvVars, lifeVars,
                        slotVars, gsrVars, logVars, pcDll>>
    \/ \E ctx \in {NULL, CtxPtr}, received \in 0 .. 1, totalLen \in 1 .. 2 :
         \E oret \in GsrVals, oE \in GsrVals :
           /\ hook_srv_gameStreamReader(ctx, received, totalLen, oret, oE)
           /\ UNCHANGED <<modVars, query, callVars, histVars, patVars, srvVars, lifeVars,
                          slotVars, tickVars, logVars, pcDll>>

SpecHooks == InitHooks /\ [][NextHooks]_vars

(***************************************************************************)
(* Properties of the two functions, checked under SpecHooks.               *)
(***************************************************************************)
\* Everything but the record of the last call of hook_GetTickCount.
AllButTick == <<modVars, query, callVars, histVars, patVars, srvVars, lifeVars,
                slotVars, gsrVars, logVars, pcDll>>

\* C22: a call of hook_GetTickCount returns: with real_GetTickCount set it
\* calls the original and returns exactly its value, with real_GetTickCount
\* NULL it returns 0 and calls nothing; either way it changes no other state.
C22_TickCountPassthroughOrZero ==
    [][tickVars' # tickVars =>
         /\ tickRet' \in TickVals
         /\ real_GetTickCount # NULL => (tickOrig' \in TickVals /\ tickRet' = tickOrig')
         /\ real_GetTickCount = NULL => (tickOrig' = -1 /\ tickRet' = 0)
         /\ UNCHANGED AllButTick]_vars

C22_Witness ==
    /\ real_GetTickCount # NULL
    /\ tickOrig = 1
    /\ tickRet = 1

\* C30: hook_srv_gameStreamReader called with a NULL context returns -1, does
\* not call the original, and neither reads nor writes through the pointer:
\* the context in memory is as it was.
C30_NullContextReturnsSentinel ==
    [][(gsrVars' # gsrVars /\ gsrArgs'.ctx = NULL) =>
         /\ gsrExit' = "null context"
         /\ gsrRet' = -1
         /\ gsrOrigArgs' = <<>>
         /\ ~ctxTouched'
         /\ ctxE' = ctxE]_vars

C30_Witness ==
    /\ gsrExit = "null context"
    /\ gsrArgs = [ctx |-> NULL, received |-> 1, totalLen |-> 2]
    /\ gsrRet = -1
    /\ gsrOrigArgs = <<>>
    /\ real_srv_gameStreamReader # NULL

ConcRetries == 1

\* The second thread is in no replacement function.
ConcIdle == pc = "idle" /\ tickRet = -1 /\ gsrExit = "none"

\* What the original send or recv answers to a request of n bytes.
ConcOutcomes(n) ==
    {out \in OrigOutcomes(n) :
        out = Fail(WSAEWOULDBLOCK) => retry_count < ConcRetries}

\* hook_GetTickCount or hook_srv_gameStreamReader has returned to the host.
fn_return ==
    /\ tickRet # -1 \/ gsrExit # "none"
    /\ tickRet' = -1 /\ tickOrig' = -1
    /\ gsrArgs' = NoGsr /\ gsrRet' = 0 /\ gsrExit' = "none" /\ gsrOrigArgs' = <<>>
    /\ ctxTouched' = FALSE
    /\ UNCHANGED ctxE

InitConc == InitRange

LifeFrame == <<modVars, query, patVars, srvVars, lifeVars, slotVars, logVars, pcDll>>

NextConc ==
    \/ /\ init_hooks
       /\ UNCHANGED OtherVars
    \/ \E h \in Loadable({IOBase}) :
         /\ load_server_dll(h)
         /\ UNCHANGED OtherVars
    \/ \E ok \in BOOLEAN, sz \in ImageSizes(g_hServerDll) :
         /\ validate_server_module(ok, sz)
         /\ UNCHANGED OtherVars
    \/ \E nameOk \in BOOLEAN, hashOk \in BOOLEAN, rva \in 0 .. g_ServerSize - 1 :
         /\ detect_server_version(nameOk, hashOk, rva)
         /\ UNCHANGED OtherVars
    \/ \E ok \in BOOLEAN :
         /\ MH_Initialize(ok)
         /\ UNCHANGED OtherVars
    \/ \E srvOk \in BOOLEAN, recvOk \in BOOLEAN, sendOk \in BOOLEAN, tickOk \in BOOLEAN :
         \E enableOk \in BOOLEAN, part \in {{}, HookNames} :
           /\ create_hooks(srvOk, recvOk, sendOk, tickOk, enableOk, part)
           /\ UNCHANGED OtherVars
    \/ /\ cleanup_hooks
       /\ UNCHANGED OtherVars
    \/ \E a \in {IOBase, IOBase + MaxSize}, out \in ConcOutcomes(1) :
         /\ ConcIdle
         /\ real_recv # NULL
         /\ hook_recv(a, 1, ValidBuf, 1, 1, out)
         /\ UNCHANGED <<LifeFrame, tickVars, gsrVars, logVars, pcDll>>
    \/ \E a \in {IOBase, IOBase + MaxSize} :
         \E out \in IF check_server_caller(a) THEN {NoOutcome} ELSE ConcOutcomes(1) :
           /\ ConcIdle
           /\ real_send # NULL
           /\ hook_send(a, 1, ValidBuf, 1, 1, out)
           /\ UNCHANGED <<LifeFrame, tickVars, gsrVars, logVars, pcDll>>
    \/ \E out \in ConcOutcomes(len - total) :
         /\ hook_send_loop(out)
         /\ UNCHANGED <<LifeFrame, tickVars, gsrVars, logVars, pcDll>>
    \/ /\ Return
       /\ UNCHANGED <<LifeFrame, tickVars, gsrVars, logVars, pcDll>>
    \/ \E orig \in TickVals :
         /\ ConcIdle
         /\ hook_GetTickCount(orig)
         /\ UNCHANGED <<LifeFrame, callVars, histVars, gsrVars>>
    \/ \E ctx \in {NULL, CtxPtr}, oret \in GsrVals :
         /\ ConcIdle
         /\ ctx # NULL => real_srv_gameStreamReader # NULL
         /\ hook_srv_gameStreamReader(ctx, 1, 2, oret, -1)
         /\ UNCHANGED <<LifeFrame, callVars, histVars, tickVars>>
    \/ /\ fn_return
       /\ UNCHANGED <<LifeFrame, callVars, histVars>>

SpecConc == InitConc /\ [][NextConc]_vars

(***************************************************************************)
(* Properties of the threads together, checked under SpecConc.             *)
(***************************************************************************)
\* The state of the second thread: a step that changes it is a step of a
\* replacement function.
HookThread == <<callVars, histVars, tickVars, gsrVars>>

\* What the replacement functions read: the module range, the offset, the
\* module handle, the original-function slots and the initialized flag.
HookMetadata == <<g_ServerBase, g_ServerSize, g_server_rva, g_hServerDll,
                  slotVars, g_HooksInitialized>>

MAX_LOG_LINES == 50000
LOG_BUFFER_SIZE == 2048
TIMESTAMP_BUFFER_SIZE == 64

\* Calls of logf made in a behaviour of SpecLog.
MaxLogCalls == 3

\* What snprintf returns for the timestamp: an error, the 26 characters of
\* "[YYYY-MM-DD hh:mm:ss.mmm] ", or the size of the buffer.
TimestampLens == {-1, 26, TIMESTAMP_BUFFER_SIZE}
\* What vsnprintf returns for the message: an error, an empty message, one
\* character, or more than the buffer holds.
FormatLens == {-1, 0, 1, LOG_BUFFER_SIZE}

\* reset_log_file, called with the file open.
reset_log_file == 0

\* logf, lines 40-43, passed: the thread goes on to EnterCriticalSection.
logf_begin(t) ==
    /\ logPc' = [logPc EXCEPT ![t] = "lock"]
    /\ logCalls' = logCalls + 1

\* LeaveCriticalSection by its owner.
LeaveCriticalSection(t) ==
    /\ csCount' = csCount - 1
    /\ csOwner' = IF csCount - 1 = 0 THEN 0 ELSE t

\* "return" of logf.
logf_return(t, how) ==
    /\ logPc' = [logPc EXCEPT ![t] = "idle"]
    /\ logTs' = [logTs EXCEPT ![t] = 0]
    /\ logExit' = [logExit EXCEPT ![t] = how]

\* init_logging, called once by thread 1 when the DLL is attached: the
\* critical section, the file, and the first call of logf.
init_logging(fileOk) ==
    /\ ~critical_section_initialized
    /\ log_file = NULL
    /\ logPc[1] = "idle"
    /\ critical_section_initialized' = TRUE
    /\ csOwner' = 0
    /\ csCount' = 0
    /\ log_file' = IF fileOk THEN LogHandle ELSE INVALID_HANDLE_VALUE
    /\ IF fileOk
       THEN logf_begin(1)
       ELSE UNCHANGED <<logPc, logCalls>>
    /\ UNCHANGED <<log_line_count, logTs, logExit, logWritten>>

\* logf, lines 40-43: nothing is logged without the critical section and
\* the file.
logf_enter(t) ==
    /\ logPc[t] = "idle"
    /\ logCalls < MaxLogCalls
    /\ IF ~critical_section_initialized \/ log_file = INVALID_HANDLE_VALUE
       THEN /\ logExit' = [logExit EXCEPT ![t] = "not open"]
            /\ logCalls' = logCalls + 1
            /\ UNCHANGED logPc
       ELSE /\ logf_begin(t)
            /\ UNCHANGED logExit
    /\ UNCHANGED <<critical_section_initialized, log_file, log_line_count, csOwner,
                   csCount, logTs, logWritten>>

\* logf, lines 45-50: EnterCriticalSection returns when no other thread
\* owns the section; the line count, and the rollover.
logf_lock(t) ==
    /\ logPc[t] = "lock"
    /\ csOwner \in {0, t}
    /\ csOwner' = t
    /\ csCount' = csCount + 1
    /\ log_line_count' = IF log_line_count + 1 > MAX_LOG_LINES
                         THEN reset_log_file
                         ELSE log_line_count + 1
    /\ logPc' = [logPc EXCEPT ![t] = "timestamp"]
    /\ UNCHANGED <<critical_section_initialized, log_file, logTs, logExit, logWritten,
                   logCalls>>

\* logf, lines 52-70: the timestamp is formatted and its length tested.
logf_timestamp(t, timestamp_len) ==
    /\ logPc[t] = "timestamp"
    /\ IF timestamp_len < 0 \/ timestamp_len >= TIMESTAMP_BUFFER_SIZE
       THEN logf_return(t, "timestamp failed")
       ELSE IF timestamp_len >= LOG_BUFFER_SIZE
       THEN logf_return(t, "timestamp too long")
       ELSE /\ logPc' = [logPc EXCEPT ![t] = "format"]
            /\ logTs' = [logTs EXCEPT ![t] = timestamp_len]
            /\ UNCHANGED logExit
    /\ UNCHANGED <<critical_section_initialized, log_file, log_line_count, csOwner,
                   csCount, logWritten, logCalls>>

\* logf, lines 72-104: the message is formatted behind the timestamp,
\* written when it is not empty, and the critical section left (n: what
\* vsnprintf returned, the local len).
logf_format(t, n) ==
    /\ logPc[t] = "format"
    /\ IF n < 0
       THEN /\ logf_return(t, "format failed")
            /\ UNCHANGED <<csOwner, csCount, logWritten>>
       ELSE LET remaining_space == LOG_BUFFER_SIZE - logTs[t]
                len1 == IF n >= remaining_space THEN remaining_space - 1 ELSE n
            IN  /\ logWritten' = IF len1 > 0 THEN logWritten + 1 ELSE logWritten
                /\ LeaveCriticalSection(t)
                /\ logf_return(t, IF len1 > 0 THEN "written" ELSE "empty")
    /\ UNCHANGED <<critical_section_initialized, log_file, log_line_count, logCalls>>

LogFrame == <<modVars, query, callVars, histVars, patVars, srvVars, lifeVars,
              slotVars, tickVars, gsrVars, pcDll>>

InitLog == InitRange

NextLog ==
    \/ \E fileOk \in BOOLEAN :
         /\ init_logging(fileOk)
         /\ UNCHANGED LogFrame
    \/ \E t \in LogThreads :
         /\ logf_enter(t)
         /\ UNCHANGED LogFrame
    \/ \E t \in LogThreads :
         /\ logf_lock(t)
         /\ UNCHANGED LogFrame
    \/ \E t \in LogThreads, timestamp_len \in TimestampLens :
         /\ logf_timestamp(t, timestamp_len)
         /\ UNCHANGED LogFrame
    \/ \E t \in LogThreads, n \in FormatLens :
         /\ logf_format(t, n)
         /\ UNCHANGED LogFrame

SpecLog == InitLog /\ [][NextLog]_vars

(***************************************************************************)
(* Properties of logf, checked under SpecLog.                              *)
(***************************************************************************)
\* C39: logf releases the logging critical section on every path on which
\* it acquired it, the paths on which the timestamp or the formatting
\* fails included: a thread that is not inside logf does not own it.
C39_LogfReleasesCriticalSection ==
    \A t \in LogThreads : logPc[t] \in {"idle", "lock"} => csOwner # t

(***************************************************************************)
(* main.c: DllMain, the initialization thread it starts (InitThread) and   *)
(* CleanupHooks, with main.c's own g_HooksInitialized, g_ServerBase,       *)
(* g_ServerSize and real_* (real_F3720 is the server-function slot).       *)
(* InitThread is one action per call it makes; DllMain's detach is         *)
(* CleanupHooks, then the closing of the log and the return.  A thread     *)
(* runs no code of the DLL once the detach has returned.  The log is a     *)
(* black box here.                                                         *)
(***************************************************************************)
\* "return 1" / "return 0" of InitThread.
InitThreadExit(code, step, envOk) ==
    /\ pcInit' = "idle"
    /\ initResult' = code
    /\ failedAt' = step
    /\ allOk' = (allOk /\ envOk)

\* DllMain, DLL_PROCESS_ATTACH: the log is opened and the initialization
\* thread created; FALSE is returned when it cannot be created.
DllMain_attach(threadOk) ==
    /\ pcDll = "unloaded"
    /\ pcDll' = "attached"
    /\ pcInit' = IF threadOk THEN "range" ELSE "idle"
    /\ allOk' = threadOk
    /\ lastOp' = "DllMain: attach"
    /\ UNCHANGED <<g_HooksInitialized, g_hServerDll, g_ServerBase, g_ServerSize,
                   g_server_rva, initResult>>
    /\ UNCHANGED <<mhInitialized, hooksCreated, hooksEnabled, libRefs, failedAt,
                   rvaFound, enableRun, priorFailed>>
    /\ UNCHANGED slotVars

\* InitServerModuleRange: the range of server.dll, when it is in the process
\* and GetModuleInformation answers.
InitServerModuleRange(hServer, infoOk, sz) ==
    /\ pcInit = "range"
    /\ pcDll # "detached"
    /\ pcInit' = "minhook"
    /\ lastOp' = "InitThread"
    /\ allOk' = (allOk /\ hServer # NULL /\ infoOk)
    /\ IF g_ServerBase = 0 /\ hServer # NULL /\ infoOk
       THEN /\ g_ServerBase' = hServer
            /\ g_ServerSize' = sz
       ELSE UNCHANGED <<g_ServerBase, g_ServerSize>>
    /\ UNCHANGED <<g_HooksInitialized, g_hServerDll, g_server_rva, initResult>>
    /\ UNCHANGED <<mhInitialized, hooksCreated, hooksEnabled, libRefs, failedAt,
                   rvaFound, enableRun, priorFailed>>
    /\ UNCHANGED <<slotVars, pcDll>>

\* InitThread, lines 395-400.
InitThread_MH_Initialize(ok) ==
    /\ pcInit = "minhook"
    /\ pcDll # "detached"
    /\ lastOp' = "InitThread"
    /\ IF mhInitialized \/ ~ok
       THEN /\ InitThreadExit("1", "MH_Initialize", ok)
            /\ UNCHANGED mhInitialized
       ELSE /\ mhInitialized' = TRUE
            /\ pcInit' = "create"
            /\ UNCHANGED <<initResult, failedAt, allOk>>
    /\ UNCHANGED <<g_HooksInitialized, g_hServerDll, g_ServerBase, g_ServerSize,
                   g_server_rva>>
    /\ UNCHANGED <<hooksCreated, hooksEnabled, libRefs, rvaFound, enableRun, priorFailed>>
    /\ UNCHANGED <<slotVars, pcDll>>

\* CreateHooks: server.dll is loaded and the four hooks are created; the
\* result is logged by InitThread and not acted on (lines 404-407).
CreateHooks(hServer, srvOk, recvOk, sendOk, tickOk) ==
    /\ pcInit = "create"
    /\ pcDll # "detached"
    /\ pcInit' = "enable"
    /\ lastOp' = "InitThread"
    /\ LET lib == mhInitialized
           srv == hServer # NULL /\ srvOk /\ lib
       IN  /\ libRefs' = IF hServer # NULL THEN libRefs + 1 ELSE libRefs
           /\ hooksCreated' = hooksCreated
                      \cup (IF srv THEN {"srv_gameStreamReader"} ELSE {})
                      \cup (IF recvOk /\ lib THEN {"recv"} ELSE {})
                      \cup (IF sendOk /\ lib THEN {"send"} ELSE {})
                      \cup (IF tickOk /\ lib THEN {"GetTickCount"} ELSE {})
           /\ real_srv_gameStreamReader' = SlotAfterCreate(real_srv_gameStreamReader, srv)
           /\ real_recv' = SlotAfterCreate(real_recv, recvOk /\ lib)
           /\ real_send' = SlotAfterCreate(real_send, sendOk /\ lib)
           /\ real_GetTickCount' = SlotAfterCreate(real_GetTickCount, tickOk /\ lib)
           /\ allOk' = (allOk /\ hServer # NULL /\ srvOk /\ recvOk /\ sendOk /\ tickOk)
    /\ UNCHANGED <<g_HooksInitialized, g_hServerDll, g_ServerBase, g_ServerSize,
                   g_server_rva, initResult>>
    /\ UNCHANGED <<mhInitialized, hooksEnabled, failedAt, rvaFound, enableRun, priorFailed>>
    /\ UNCHANGED pcDll

\* InitThread, lines 409-423: MH_EnableHook(MH_ALL_HOOKS) and the flag.  A
\* failing MH_EnableHook may have enabled part of the hooks.
InitThread_MH_EnableHook(ok, part) ==
    /\ pcInit = "enable"
    /\ pcDll # "detached"
    /\ lastOp' = "InitThread"
    /\ enableRun' = TRUE
    /\ IF ok /\ mhInitialized
       THEN /\ hooksEnabled' = hooksCreated
            /\ g_HooksInitialized' = TRUE
            /\ pcInit' = "idle"
            /\ initResult' = "0"
            /\ UNCHANGED <<failedAt, allOk>>
       ELSE /\ hooksEnabled' = hooksEnabled \cup (IF mhInitialized THEN part \cap hooksCreated ELSE {})
            /\ InitThreadExit("1", "MH_EnableHook", ok)
            /\ UNCHANGED g_HooksInitialized
    /\ UNCHANGED <<g_hServerDll, g_ServerBase, g_ServerSize, g_server_rva>>
    /\ UNCHANGED <<mhInitialized, hooksCreated, libRefs, rvaFound, priorFailed>>
    /\ UNCHANGED <<slotVars, pcDll>>

\* CleanupHooks: nothing unless g_HooksInitialized; else MH_DisableHook of
\* all hooks, MH_Uninitialize, and the flag cleared.
CleanupHooks ==
    IF ~g_HooksInitialized
    THEN /\ lastOp' = "CleanupHooks: nothing done"
         /\ UNCHANGED <<g_HooksInitialized, mhInitialized, hooksCreated, hooksEnabled>>
    ELSE /\ lastOp' = "CleanupHooks: torn down"
         /\ hooksEnabled' = {}
         /\ hooksCreated' = {}
         /\ mhInitialized' = FALSE
         /\ g_HooksInitialized' = FALSE

\* DllMain, DLL_PROCESS_DETACH, up to the return of CleanupHooks.
DllMain_detach ==
    /\ pcDll = "attached"
    /\ pcDll' = "detaching"
    /\ CleanupHooks
    /\ UNCHANGED <<g_hServerDll, g_ServerBase, g_ServerSize, g_server_rva, pcInit,
                   initResult>>
    /\ UNCHANGED <<libRefs, failedAt, allOk, rvaFound, enableRun, priorFailed>>
    /\ UNCHANGED slotVars

\* DllMain, DLL_PROCESS_DETACH: the log is closed and DllMain returns.
DllMain_return ==
    /\ pcDll = "detaching"
    /\ pcDll' = "detached"
    /\ UNCHANGED <<modVars, lifeVars, slotVars>>

MainFrame == <<query, callVars, histVars, patVars, srvVars, tickVars, gsrVars, logVars>>

InitMain == InitRange

NextMain ==
    \/ \E threadOk \in BOOLEAN :
         /\ DllMain_attach(threadOk)
         /\ UNCHANGED MainFrame
    \/ \E hServer \in {NULL, IOBase}, infoOk \in BOOLEAN, sz \in ImageSizes(IOBase) :
         /\ InitServerModuleRange(hServer, infoOk, sz)
         /\ UNCHANGED MainFrame
    \/ \E ok \in BOOLEAN :
         /\ InitThread_MH_Initialize(ok)
         /\ UNCHANGED MainFrame
    \/ \E hServer \in Loadable({IOBase}) :
         \E srvOk \in BOOLEAN, recvOk \in BOOLEAN, sendOk \in BOOLEAN, tickOk \in BOOLEAN :
           /\ CreateHooks(hServer, srvOk, recvOk, sendOk, tickOk)
           /\ UNCHANGED MainFrame
    \/ \E ok \in BOOLEAN, part \in SUBSET HookNames :
         /\ InitThread_MH_EnableHook(ok, part)
         /\ UNCHANGED MainFrame
    \/ /\ DllMain_detach
       /\ UNCHANGED MainFrame
    \/ /\ DllMain_return
       /\ UNCHANGED MainFrame

SpecMain == InitMain /\ [][NextMain]_vars

=============================================================================
